---------------------------- MODULE Spec2Model ----------------------------
(***************************************************************************)
(* Event-messaging layer of the product service: EventPublisher,           *)
(* RedisStreamsClient and RedisStreamsConsumer over a Redis-Streams broker *)
(* (XADD, XGROUP CREATE, XREADGROUP with id '>', XACK).                    *)
(*                                                                         *)
(* Strings that the code takes apart (event types, stream names) are       *)
(* sequences of one-character strings.  JavaScript values are tagged       *)
(* records, so that undefined, null, "" and objects stay distinguishable.  *)
(***************************************************************************)
EXTENDS Integers, Sequences, FiniteSets, TLC

(***************************************************************************)
(* Bounds of the model.                                                    *)
(***************************************************************************)
MaxEntries == 2
MaxSubscribes == 2

(***************************************************************************)
(* Program constants.                                                      *)
(***************************************************************************)
ReadCount == 10

None == [t |-> "none"]

(***************************************************************************)
(* JavaScript values.                                                      *)
(***************************************************************************)
Undefined == [t |-> "undefined"]
Null == [t |-> "null"]
Str(s) == [t |-> "str", s |-> s]
Obj(o) == [t |-> "obj", o |-> o]

Truthy(v) ==
    /\ v.t \notin {"undefined", "null"}
    /\ ~(v.t = "str" /\ v.s = <<>>)

JsOr(a, b) == IF Truthy(a) THEN a ELSE b

Prop(v, k) == IF k \in DOMAIN v.o THEN v.o[k] ELSE Undefined

(***************************************************************************)
(* Event types and stream names.                                           *)
(***************************************************************************)
OrderCreated == <<"o","r","d","e","r",".","c","r","e","a","t","e","d">>
UserRegistered == <<"u","s","e","r",".","r","e","g","i","s","t","e","r","e","d">>
EventTypes == {OrderCreated, UserRegistered}

\* A second event type of the order domain.
OrderShipped == <<"o","r","d","e","r",".","s","h","i","p","p","e","d">>

\* An event type without a dot.
OrderOnly == <<"o","r","d","e","r">>

\* Event types with no domain segment: the empty string, and a string that
\* begins with a dot.
MalformedTypes == {<<>>, <<".","c","r","e","a","t","e","d">>}

DefaultStreamPrefix == <<"e","v","e","n","t","s">>

FirstDot(s) ==
    IF \E i \in 1..Len(s) : s[i] = "."
    THEN CHOOSE i \in 1..Len(s) : s[i] = "." /\ \A j \in 1..(i-1) : s[j] # "."
    ELSE Len(s) + 1

SplitFirst(s) == SubSeq(s, 1, FirstDot(s) - 1)

ConsumerGetStreamName(eventType) ==
    <<"e","v","e","n","t","s",":">> \o SplitFirst(eventType)

PublisherGetStreamNameWhole(streamPrefix, eventType) ==
    streamPrefix \o <<":">> \o eventType \o <<"s">>

\* EventPublisher.getStreamName: `${this.streamPrefix}:${domain}s` with
\* domain = eventType.split('.')[0].
PublisherGetStreamName(streamPrefix, eventType) ==
    streamPrefix \o <<":">> \o SplitFirst(eventType) \o <<"s">>

ConsumerStreams == {ConsumerGetStreamName(T) : T \in EventTypes}
PublisherStreams == {PublisherGetStreamName(DefaultStreamPrefix, T) : T \in EventTypes}
MalformedStreams ==
    {ConsumerGetStreamName(T) : T \in MalformedTypes}
        \cup {PublisherGetStreamName(DefaultStreamPrefix, T) : T \in MalformedTypes}
Streams == ConsumerStreams \cup PublisherStreams \cup MalformedStreams


(***************************************************************************)
(* Envelope codec: createEventEnvelope, JSON.stringify, JSON.parse and the *)
(* consumer's normalisation of the two field-naming dialects.              *)
(***************************************************************************)
ServiceName == <<"p","r","o","d","u","c","t","-","s","e","r","v","i","c","e">>
EnvelopeVersion == <<"1",".","0",".","0">>
UUIDs == {<<"u","u","i","d","-","1">>}
Clock == <<"2","0","2","6">>
SampleData == Obj([orderId |-> Str(<<"o","1">>)])

\* The traceparent the W3C propagator writes for a span context: version 00,
\* the trace id (32 hex digits), the span id (16 hex digits) and the flags
\* (2 hex digits), joined by dashes.
Repeat(ch, n) == [j \in 1..n |-> ch]
TraceParent(traceId, spanId, flags) ==
    <<"0","0","-">> \o traceId \o <<"-">> \o spanId \o <<"-">> \o flags
SampledSpan == Str(TraceParent(Repeat("a", 32), Repeat("b", 16), <<"0","1">>))
ActiveTraceContext == Obj([traceparent |-> SampledSpan])

createEventEnvelope(eventType, source, data, options, uuid) ==
    Obj([eventId |-> Str(uuid),
         eventType |-> Str(eventType),
         timestamp |-> Str(Clock),
         source |-> Str(source),
         version |-> Str(EnvelopeVersion),
         correlationId |-> Prop(options, "correlationId"),
         causationId |-> Prop(options, "causationId"),
         traceContext |-> Prop(options, "traceContext"),
         metadata |-> Prop(options, "metadata"),
         data |-> data])

\* The value a JSON text stands for: at every depth of an object, the
\* properties whose value is undefined are left out.
RECURSIVE JSONValue(_)
JSONValue(v) ==
    IF v.t = "obj"
    THEN Obj([k \in {x \in DOMAIN v.o : v.o[x] # Undefined} |-> JSONValue(v.o[k])])
    ELSE v

\* JSON.stringify of an object.
JSONStringify(v) == [t |-> "text", doc |-> JSONValue(v)]

\* JSON.parse: a serialised document parses to its value, the text "null" to
\* null, any other text of the model is not JSON and raises SyntaxError.
JSONParse(text) ==
    IF text.t = "text" THEN [throws |-> FALSE, value |-> text.doc]
    ELSE IF text = Str(<<"n","u","l","l">>) THEN [throws |-> FALSE, value |-> Null]
    ELSE [throws |-> TRUE, value |-> Undefined]

\* rawEnvelope.<k>: undefined on a value that is no object.
RawProp(raw, k) == IF raw.t = "obj" THEN Prop(raw, k) ELSE Undefined

NormalizeEnvelope(raw) ==
    [eventId |-> JsOr(RawProp(raw, "eventId"), RawProp(raw, "event_id")),
     eventType |-> JsOr(RawProp(raw, "eventType"), RawProp(raw, "event_type")),
     timestamp |-> RawProp(raw, "timestamp"),
     source |-> RawProp(raw, "source"),
     version |-> RawProp(raw, "version"),
     correlationId |-> JsOr(RawProp(raw, "correlationId"), RawProp(raw, "correlation_id")),
     causationId |-> JsOr(RawProp(raw, "causationId"), RawProp(raw, "causation_id")),
     traceContext |-> JsOr(RawProp(raw, "traceContext"), RawProp(raw, "trace_context")),
     metadata |-> RawProp(raw, "metadata"),
     data |-> RawProp(raw, "data")]

\* The field array of a broker message, [key, value, key, value, ...], as a
\* map: the for loop of processMessage, a later key overwriting an earlier one.
ParseFields(fields) ==
    LET pairs == (Len(fields) + 1) \div 2
        data[n \in 0..pairs] ==
            IF n = 0 THEN [x \in {} |-> Undefined]
            ELSE [k \in DOMAIN data[n - 1] \cup {fields[2 * n - 1]} |->
                    IF k = fields[2 * n - 1]
                    THEN (IF 2 * n <= Len(fields) THEN fields[2 * n] ELSE Undefined)
                    ELSE data[n - 1][k]]
    IN  data[pairs]

Field(data, k) == IF k \in DOMAIN data THEN data[k] ELSE Undefined

EnvelopeDataPayloadFirst(fields) ==
    LET data == ParseFields(fields)
    IN  JsOr(Field(data, "payload"), Field(data, "data"))

\* `data.data || data.payload`
EnvelopeData(fields) ==
    LET data == ParseFields(fields)
    IN  JsOr(Field(data, "data"), Field(data, "payload"))

ProcessStartUnacked(fields) ==
    LET Decoded(envelopeData) ==
            LET parsed == JSONParse(envelopeData)
            IN  IF ~Truthy(envelopeData)
                THEN [path |-> "missing", xack |-> FALSE, span |-> FALSE, envelope |-> None]
                ELSE IF parsed.throws \/ parsed.value = Null
                THEN [path |-> "throw", xack |-> FALSE, span |-> FALSE, envelope |-> None]
                ELSE [path |-> "dispatch", xack |-> FALSE, span |-> TRUE,
                      envelope |-> NormalizeEnvelope(parsed.value)]
    IN  CHOOSE d \in {Decoded(envelopeData) : envelopeData \in {EnvelopeData(fields)}} : TRUE

(***************************************************************************)
(* processMessage up to its first await: the message has no usable         *)
(* data/payload field ("missing": warn, XACK, return), decoding raises     *)
(* inside the try block ("throw": the catch logs and returns), or an       *)
(* envelope is built and dispatched inside a consumer span ("dispatch").   *)
(* envelopeData is computed once from the fields and then examined.        *)
(***************************************************************************)
ProcessStart(fields) ==
    LET Decoded(envelopeData) ==
            LET parsed == JSONParse(envelopeData)
            IN  IF ~Truthy(envelopeData)
                THEN [path |-> "missing", xack |-> TRUE, span |-> FALSE, envelope |-> None]
                ELSE IF parsed.throws \/ parsed.value = Null
                THEN [path |-> "throw", xack |-> FALSE, span |-> FALSE, envelope |-> None]
                ELSE [path |-> "dispatch", xack |-> FALSE, span |-> TRUE,
                      envelope |-> NormalizeEnvelope(parsed.value)]
    IN  CHOOSE d \in {Decoded(envelopeData) : envelopeData \in {EnvelopeData(fields)}} : TRUE

(***************************************************************************)
(* Trace bridge: createSpan, withSpan, getCurrentTraceContext and          *)
(* extractTraceContext.  A span is the sequence of the calls made on it.   *)
(***************************************************************************)
\* process.env of the process, with none of the variables initTracer reads.
ProcessEnv == Obj([x \in {} |-> Undefined])

UnknownService == <<"u","n","k","n","o","w","n","-","s","e","r","v","i","c","e">>

\* The tracing module as it is loaded: no tracer, no provider registered.
Uninitialised == [tracer |-> Null, registered |-> <<>>]

\* The tracer provider that initTracer creates and registers, and the tracer
\* it takes from it.
NewTracer(state, config, env) ==
    LET serviceName == JsOr(JsOr(Prop(config, "serviceName"), Prop(env, "OTEL_SERVICE_NAME")),
                            Str(UnknownService))
        serviceVersion == JsOr(JsOr(Prop(config, "serviceVersion"), Prop(env, "SERVICE_VERSION")),
                               Str(EnvelopeVersion))
        provider == Len(state.registered) + 1
    IN  [state |-> [tracer |-> Obj([provider |-> provider, name |-> serviceName,
                                    version |-> serviceVersion]),
                    registered |-> Append(state.registered, provider)],
         returned |-> Obj([provider |-> provider, name |-> serviceName,
                           version |-> serviceVersion])]

initTracerAnew(state, config, env) == NewTracer(state, config, env)

\* initTracer(config): the tracer of the module, when there is one, is
\* returned and the config is not looked at.
initTracer(state, config, env) ==
    IF state.tracer # Null
    THEN [state |-> state, returned |-> state.tracer]
    ELSE NewTracer(state, config, env)

\* getTracer(): the tracer of the module, initialised with the default
\* config when there is none.
getTracer(state, env) ==
    IF state.tracer = Null
    THEN initTracer(state, Obj([x \in {} |-> Undefined]), env)
    ELSE [state |-> state, returned |-> state.tracer]

\* createSpan(name, options): the tracer is taken with getTracer(), which
\* initialises it on the first call of the process; kind defaults to INTERNAL,
\* the parent to the active context.
createSpan(state, name, options) ==
    [state |-> getTracer(state, ProcessEnv).state,
     span |-> [op |-> "start", name |-> name,
               kind |-> IF Truthy(Prop(options, "kind")) THEN Prop(options, "kind").s
                        ELSE <<"I","N","T","E","R","N","A","L">>,
               parent |-> IF Truthy(Prop(options, "parentContext"))
                          THEN "parentContext" ELSE "active"]]

\* What the awaited fn(span) settles with.
Returned(v) == [throws |-> FALSE, value |-> v]
Thrown(e) == [throws |-> TRUE, value |-> e]

withSpanNoFinally(state, name, settled, options) ==
    [state |-> createSpan(state, name, options).state,
     trace |-> <<createSpan(state, name, options).span>>
               \o (IF settled.throws
                   THEN <<[op |-> "recordException", error |-> settled.value]>>
                   ELSE <<[op |-> "end"]>>),
     result |-> settled]

\* withSpan(name, fn, options), for what fn settles with: the span is
\* created, the try returns fn's result, the catch records the exception and
\* throws it again, the finally ends the span; then the call settles.
withSpan(state, name, settled, options) ==
    LET created == createSpan(state, name, options)
        catch == IF settled.throws
                 THEN <<[op |-> "recordException", error |-> settled.value]>>
                 ELSE <<>>
        finally == <<[op |-> "end"]>>
    IN  [state |-> created.state,
         trace |-> <<created.span>> \o catch \o finally,
         result |-> settled]

\* context.active(): the caller runs in no span, inside a recording span, or
\* inside one whose span context carries a tracestate.
NoSpan == [traceparent |-> None]
InSpan == [traceparent |-> SampledSpan]
InSpanWithState ==
    [traceparent |-> SampledSpan,
     tracestate |-> Str(<<"v","=","1">>)]

\* The properties of the carrier after propagation.inject(active, carrier):
\* the W3C propagator sets traceparent, and tracestate when the span context
\* has one, for a context that holds a valid span context, and sets nothing
\* otherwise.
Injected(active, o) ==
    IF active.traceparent = None THEN o
    ELSE LET set == {"traceparent"} \cup
                    (IF "tracestate" \in DOMAIN active THEN {"tracestate"} ELSE {})
         IN  [k \in DOMAIN o \cup set |-> IF k \in set THEN active[k] ELSE o[k]]

ActiveContexts == {NoSpan, InSpan, InSpanWithState}

\* The contexts context.active() can return: the root context until
\* provider.register() in initTracer has installed a context manager.
AmbientContexts(state) ==
    IF state.registered = <<>> THEN {NoSpan} ELSE ActiveContexts

\* getCurrentTraceContext(): propagation.inject(context.active(), {}).
getCurrentTraceContext(active) == Obj(Injected(active, [x \in {} |-> Undefined]))

HexDigits == {"0","1","2","3","4","5","6","7","8","9","a","b","c","d","e","f"}
IsHex(s) == \A j \in 1..Len(s) : s[j] \in HexDigits
AllZero(s) == \A j \in 1..Len(s) : s[j] = "0"

\* The characters of the class \s and the line terminators that can be
\* written in a string of this module.
WhiteSpace == {" ", "\t", "\n", "\r", "\f"}
LineTerminators == {"\n", "\r"}

\* The header without the one white-space character that may precede it.
HeaderBody(s) == IF Len(s) > 0 /\ s[1] \in WhiteSpace THEN Tail(s) ELSE s

\* The W3C propagator parses a traceparent that is a string of a version of
\* two hex digits other than ff, a trace id of 32 hex digits and a span id
\* of 16, neither of them all zeros, and flags of two hex digits, separated
\* by dashes.  One white-space character may precede and may follow them;
\* when the version is not 00, a dash and further characters of one line
\* may come before the end.
IsTraceparent(v) ==
    /\ v.t = "str"
    /\ LET s == HeaderBody(v.s)
           version == SubSeq(s, 1, 2)
           traceId == SubSeq(s, 4, 35)
           spanId == SubSeq(s, 37, 52)
           rest == SubSeq(s, 56, Len(s))
       IN  /\ Len(s) >= 55
           /\ IsHex(version) /\ version # <<"f","f">>
           /\ s[3] = "-" /\ IsHex(traceId) /\ ~AllZero(traceId)
           /\ s[36] = "-" /\ IsHex(spanId) /\ ~AllZero(spanId)
           /\ s[53] = "-" /\ IsHex(SubSeq(s, 54, 55))
           /\ \/ rest = <<>>
              \/ Len(rest) = 1 /\ rest[1] \in WhiteSpace
              \/ /\ rest # <<>> /\ rest[1] = "-"
                 /\ version # <<"0","0">>
                 /\ \A j \in 2..(Len(rest) - 1) : rest[j] \notin LineTerminators

\* The span context parsed from a traceparent, as the propagator writes it:
\* the trace id, the span id and the flags, which are parsed as a number and
\* written as a zero followed by the number in hex.
RemoteSpan(v) ==
    LET s == HeaderBody(v.s)
        flags == SubSeq(s, 54, 55)
    IN  Str(TraceParent(SubSeq(s, 4, 35), SubSeq(s, 37, 52),
                        IF flags[1] = "0" THEN flags ELSE <<"0">> \o flags))

\* s.indexOf(ch), counted from 1; 0 when ch is not in s.
IndexOf(s, ch) ==
    IF \E i \in 1..Len(s) : s[i] = ch
    THEN CHOOSE i \in 1..Len(s) : s[i] = ch /\ \A j \in 1..(i - 1) : s[j] # ch
    ELSE 0

\* s.split(ch)
RECURSIVE Split(_, _)
Split(s, ch) ==
    IF IndexOf(s, ch) = 0 THEN <<s>>
    ELSE <<SubSeq(s, 1, IndexOf(s, ch) - 1)>>
            \o Split(SubSeq(s, IndexOf(s, ch) + 1, Len(s)), ch)

\* s.trim()
Trim(s) ==
    LET inner == {i \in 1..Len(s) : s[i] \notin WhiteSpace}
    IN  IF inner = {} THEN <<>>
        ELSE SubSeq(s, CHOOSE i \in inner : \A j \in inner : i <= j,
                       CHOOSE i \in inner : \A j \in inner : i >= j)

LowerCase == {"a","b","c","d","e","f","g","h","i","j","k","l","m","n","o","p","q",
                 "r","s","t","u","v","w","x","y","z"}
Digits == {"0","1","2","3","4","5","6","7","8","9"}
KeyChars == LowerCase \cup Digits \cup {"_", "-", "*", "/"}
Printable == {" ","!","\"","#","$","%","&","'","(",")","*","+",",","-",".","/","0",
                 "1","2","3","4","5","6","7","8","9",":",";","<","=",">","?","@","A",
                 "B","C","D","E","F","G","H","I","J","K","L","M","N","O","P","Q","R",
                 "S","T","U","V","W","X","Y","Z","[","\\","]","^","_","a","b","c",
                 "d","e","f","g","h","i","j","k","l","m","n","o","p","q","r","s","t",
                 "u","v","w","x","y","z","{","|","}","~"}

\* A key of a tracestate member: a lower-case letter followed by up to 255
\* key characters, or tenant@vendor with a tenant of up to 241 and a vendor
\* of up to 14 characters.
ValidKey(key) ==
    LET at == IndexOf(key, "@")
        tenant == SubSeq(key, 1, at - 1)
        vendor == SubSeq(key, at + 1, Len(key))
    IN  \/ /\ Len(key) \in 1..256
           /\ key[1] \in LowerCase
           /\ \A j \in 2..Len(key) : key[j] \in KeyChars
        \/ /\ at # 0
           /\ Len(tenant) \in 1..241
           /\ tenant[1] \in LowerCase \cup Digits
           /\ \A j \in 2..Len(tenant) : tenant[j] \in KeyChars
           /\ Len(vendor) \in 1..14
           /\ vendor[1] \in LowerCase
           /\ \A j \in 2..Len(vendor) : vendor[j] \in KeyChars

\* A value of a tracestate member: up to 256 printable characters without
\* comma and equals sign, the last of them not a space.  (Printable lacks
\* the backquote, which no string of this module can hold.)
ValidValue(value) ==
    /\ Len(value) \in 1..256
    /\ \A j \in 1..Len(value) : value[j] \in Printable \ {",", "="}
    /\ value[Len(value)] # " "

\* One member of the list: trimmed and split at its first equals sign.
ListMember(part) ==
    LET listMember == Trim(part)
        i == IndexOf(listMember, "=")
    IN  [key |-> SubSeq(listMember, 1, i - 1),
         value |-> SubSeq(listMember, i + 1, Len(listMember)),
         ok |-> /\ i # 0
                /\ ValidKey(SubSeq(listMember, 1, i - 1))
                /\ ValidValue(SubSeq(listMember, i + 1, Len(listMember)))]

RECURSIVE JoinMembers(_)
JoinMembers(members) ==
    IF members = <<>> THEN <<>>
    ELSE members[1].key \o <<"=">> \o members[1].value
            \o (IF Len(members) = 1 THEN <<>> ELSE <<",">> \o JoinMembers(Tail(members)))

\* new TraceState(raw).serialize(): the members of the list that have a valid
\* key and value; of the members with one key the first gives the value and
\* the last the place.  A header of more than 512 characters gives no
\* member; of more than 32 members the first 32 are kept, in reverse order.
TraceState(raw) ==
    LET parts == Split(raw, ",")
        all == [n \in 1..Len(parts) |-> ListMember(parts[n])]
        valid == SelectSeq(all, LAMBDA m : m.ok)
        last == {n \in 1..Len(valid) :
                    \A j \in (n + 1)..Len(valid) : valid[j].key # valid[n].key}
        First(n) == CHOOSE j \in 1..n :
                        /\ valid[j].key = valid[n].key
                        /\ \A k \in 1..(j - 1) : valid[k].key # valid[n].key
        rank(n) == Cardinality({j \in last : j <= n})
        members == [r \in 1..Cardinality(last) |->
                       LET n == CHOOSE j \in last : rank(j) = r
                       IN  [key |-> valid[n].key, value |-> valid[First(n)].value]]
    IN  IF Len(raw) > 512 THEN <<>>
        ELSE IF Len(members) > 32
        THEN JoinMembers([r \in 1..32 |-> members[33 - r]])
        ELSE JoinMembers(members)

\* propagation.extract(context.active(), carrier): until initTracer has
\* registered the propagator nothing is extracted and the active context is
\* returned; after that, when the carrier holds a traceparent, the context
\* of the remote span, with the trace state parsed from a truthy tracestate
\* of the carrier (an empty one when that is no string), else the active
\* context.
extractTraceContext(state, carrier, active) ==
    IF /\ state.registered # <<>>
       /\ carrier.t = "obj"
       /\ IsTraceparent(Prop(carrier, "traceparent"))
    THEN IF Truthy(Prop(carrier, "tracestate"))
         THEN [traceparent |-> RemoteSpan(Prop(carrier, "traceparent")),
               tracestate |-> IF Prop(carrier, "tracestate").t = "str"
                              THEN Str(TraceState(Prop(carrier, "tracestate").s))
                              ELSE Str(<<>>)]
         ELSE [traceparent |-> RemoteSpan(Prop(carrier, "traceparent"))]
    ELSE active

\* processMessage: the parent context is extracted from a truthy traceContext
\* and is undefined otherwise.
ParentContext(state, envelope, active) ==
    IF Truthy(envelope.traceContext)
    THEN extractTraceContext(state, envelope.traceContext, active)
    ELSE Undefined

\* The context the consumer span is started in: createSpan uses
\* options.parentContext, or the active context when it is undefined.
ConsumerSpanParent(state, envelope, active) ==
    IF ParentContext(state, envelope, active) # Undefined
    THEN ParentContext(state, envelope, active)
    ELSE active

(***************************************************************************)
(* Messages that producers put on the streams.                             *)
(***************************************************************************)
PublishedEnvelope(eventType, uuid) ==
    createEventEnvelope(eventType, ServiceName, SampleData,
                        Obj([traceContext |-> ActiveTraceContext]), uuid)

\* trace.setSpan(ctx, span) for a span started in ctx: the context fn runs in.
\* The span has the trace id and the trace state of its parent, or a new
\* trace id, and its own span id.
SpanContext(ctx) ==
    LET traceparent ==
            Str(TraceParent(IF ctx.traceparent = None THEN Repeat("c", 32)
                            ELSE SubSeq(ctx.traceparent.s, 4, 35),
                            Repeat("d", 16), <<"0","1">>))
    IN  IF ctx.traceparent # None /\ "tracestate" \in DOMAIN ctx
        THEN [traceparent |-> traceparent, tracestate |-> ctx.tracestate]
        ELSE [traceparent |-> traceparent]

PublisherEnvelopeInSpan(eventType, uuid, active) ==
    createEventEnvelope(eventType, ServiceName, SampleData,
                        Obj([traceContext |-> getCurrentTraceContext(SpanContext(active))]),
                        uuid)

\* EventPublisher.publish: the envelope is stamped with the trace context of
\* the caller's active context, before the producer span is created.
PublisherEnvelope(eventType, uuid, active) ==
    createEventEnvelope(eventType, ServiceName, SampleData,
                        Obj([traceContext |-> getCurrentTraceContext(active)]), uuid)

\* EventPublisher.publish: XADD stream MAXLEN ~ 10000 * data <json>
PublisherFields(eventType, uuid, active) ==
    <<"data", JSONStringify(PublisherEnvelope(eventType, uuid, active))>>

\* RedisStreamsClient.publish: XADD stream MAXLEN ~ 10000 * payload <json>
ClientFields(envelope) == <<"payload", JSONStringify(envelope)>>

\* Messages of other producers on the same broker: a payload that is not
\* JSON, and a message whose fields hold no data/payload wrapper.
GarbageFields == <<"data", Str(<<"{","o","o","p","s">>)>>
UnwrappedFields ==
    <<"event_type", Str(UserRegistered), "event_id", Str(<<"a","b","c">>)>>
ForeignMessages == {GarbageFields, UnwrappedFields}

\* A message of another producer whose payload is a JSON object with neither
\* an event id nor an event type in either dialect.
AnonymousFields == <<"data", JSONStringify(Obj([source |-> Str(ServiceName),
                                                data |-> SampleData]))>>

(***************************************************************************)
(* State.                                                                  *)
(***************************************************************************)
Consumers == {"c1", "c2"}
Handlers == {"h1", "h2"}
GroupName == "product-service-group"
ConsumerGroup(c) == GroupName

\* A product is stood for by the number of writes that made it: 1 as created,
\* one more with each update.  The map has no entry, the cache no key.
NoProduct == 0

VARIABLES
    log,         \* broker: stream -> sequence of field arrays; an entry's id is its index
    grp,         \* broker: stream -> (group name -> [last, pel]) for the groups that exist
    handlers,    \* consumer: this.handlers, event type -> handler
    streams,     \* consumer: this.streams, in insertion order
    running,     \* consumer: this.running
    quitSent,    \* consumer: stop() was called, so client.quit() was issued
    calls,       \* consumer: subscribe calls suspended at the await of XGROUP CREATE
    loops,       \* consumer: the startConsuming activations, each with its position
    nSub,        \* consumer: subscribe calls made so far
    failedSubs,  \* history: event types whose group creation failed (not BUSYGROUP)
    delivered,   \* history: <<consumer, stream, id>> handed out by XREADGROUP
    ackCalls,    \* history: <<stream, id>> -> number of XACK commands issued for it
    done,        \* history: one record per finished processMessage call
    dropped,     \* history: delivered messages of a batch that were never dispatched
    published,   \* history: appends made by EventPublisher.publish
    spans,       \* history: the withSpan calls that have settled
    spanCalls,   \* tracing module: the withSpan calls suspended at the await of fn
    subDone,     \* history: the subscribe calls that have settled
    tracing,     \* tracing module: its tracer variable and the providers registered
    products,    \* ProductService: this.products.get(id) for the one product id, or None
    cache,       \* Redis: the value of the key product:<id>, or None
    requests,    \* ProductService: the calls made so far, each with its position
    shutdown,    \* product service process once main has set it up: the HTTP server,
                 \* the connections, the shutdown calls made and the exit code (-1: running)
    publishing,  \* publisher: the publish calls suspended at the await of XADD
    evals        \* history: calls of the codec, topology and trace-bridge functions

vars == <<log, grp, handlers, streams, running, quitSent, calls, loops, nSub,
          failedSubs, delivered, ackCalls, done, dropped, published, spans, spanCalls, subDone,
          tracing, evals, products, cache, requests, shutdown, publishing>>

serviceVars == <<products, cache, requests, shutdown>>

brokerVars == <<log, grp>>
histVars == <<failedSubs, delivered, ackCalls, done, dropped, published, spans, spanCalls, subDone, evals>>

EmptyFn == [x \in {} |-> None]

Init ==
    /\ log = [s \in Streams |-> <<>>]
    /\ grp = [s \in Streams |-> EmptyFn]
    /\ handlers = [c \in Consumers |-> EmptyFn]
    /\ streams = [c \in Consumers |-> <<>>]
    /\ running = [c \in Consumers |-> FALSE]
    /\ quitSent = [c \in Consumers |-> FALSE]
    /\ calls = [c \in Consumers |-> <<>>]
    /\ loops = [c \in Consumers |-> <<>>]
    /\ nSub = [c \in Consumers |-> 0]
    /\ failedSubs = [c \in Consumers |-> {}]
    /\ delivered = {}
    /\ ackCalls = EmptyFn
    /\ done = {}
    /\ dropped = {}
    /\ published = {}
    /\ spans = {}
    /\ spanCalls = <<>>
    /\ subDone = {}
    /\ tracing = Uninitialised
    /\ evals = {}
    /\ publishing = <<>>
    /\ products = NoProduct
    /\ cache = NoProduct
    /\ requests = <<>>
    /\ shutdown = [listening |-> TRUE, accepted |-> 0, redis |-> "ready",
                   otel |-> "running", code |-> -1, calls |-> <<>>]

(***************************************************************************)
(* Helpers.                                                                *)
(***************************************************************************)
Range(q) == {q[i] : i \in 1..Len(q)}

RemoveAt(q, i) == SubSeq(q, 1, i - 1) \o SubSeq(q, i + 1, Len(q))

\* Set.add on an insertion-ordered set.
SetAdd(q, x) == IF x \in Range(q) THEN q ELSE Append(q, x)

\* Map.set
MapSet(m, k, v) == [x \in DOMAIN m \cup {k} |-> IF x = k THEN v ELSE m[x]]

TotalEntries == LET n[S \in SUBSET Streams] ==
                        IF S = {} THEN 0
                        ELSE LET s == CHOOSE x \in S : TRUE
                             IN  Len(log[s]) + n[S \ {s}]
                IN  n[Streams]

Min(a, b) == IF a < b THEN a ELSE b

(***************************************************************************)
(* Producers.                                                              *)
(***************************************************************************)
XAddTwice(stream, fields) == [log EXCEPT ![stream] = Append(Append(@, fields), fields)]

XAdd(stream, fields) == [log EXCEPT ![stream] = Append(@, fields)]

\* The error a rejected XADD is rejected with.
AppendError == Obj([message |-> Str(<<"E","C","O","N","N","R","E","S","E","T">>)])

\* The record of a publish call that has settled.
PublishedRec(eventType, stream, active, failed, call) ==
    [eventType |-> eventType, stream |-> stream,
     active |-> active, producer |-> SpanContext(active),
     id |-> IF call.result.throws THEN 0 ELSE call.result.value,
     raised |-> call.result.throws,
     failed |-> failed, result |-> call.result, span |-> call.trace]

PublishSpanName(eventType) == <<"p","u","b","l","i","s","h"," ">> \o eventType

ProducerSpan == Obj([kind |-> Str(<<"P","R","O","D","U","C","E","R">>)])

PublishCallWithRetry(eventType, uuid, active, ok) ==
    LET stream == PublisherGetStreamName(DefaultStreamPrefix, eventType)
        created == createSpan(tracing, PublishSpanName(eventType), ProducerSpan)
    IN  /\ active \in AmbientContexts(tracing)
        /\ log' = XAdd(stream, PublisherFields(eventType, uuid, active))
        /\ tracing' = created.state
        /\ publishing' = Append(publishing,
              [eventType |-> eventType, stream |-> stream, active |-> active,
               xadd |-> IF ok THEN Returned(Len(log[stream]) + 1) ELSE Thrown(AppendError),
               span |-> <<created.span>>])
        /\ UNCHANGED <<grp, handlers, streams, running, quitSent, calls, loops, nSub,
                       failedSubs, delivered, ackCalls, done, dropped, published, spans, spanCalls,
                       subDone, serviceVars, evals>>

\* EventPublisher.publish(eventType, data) up to its await, called in the
\* active context `active`: the envelope is stamped, the stream is derived
\* from the event type, the producer span is started and XADD is issued; the
\* broker appends the entry, or rejects the command.
PublishCall(eventType, uuid, active, ok) ==
    LET stream == PublisherGetStreamName(DefaultStreamPrefix, eventType)
        created == createSpan(tracing, PublishSpanName(eventType), ProducerSpan)
    IN  /\ active \in AmbientContexts(tracing)
        /\ log' = IF ok THEN XAdd(stream, PublisherFields(eventType, uuid, active)) ELSE log
        /\ tracing' = created.state
        /\ publishing' = Append(publishing,
              [eventType |-> eventType, stream |-> stream, active |-> active,
               xadd |-> IF ok THEN Returned(Len(log[stream]) + 1) ELSE Thrown(AppendError),
               span |-> <<created.span>>])
        /\ UNCHANGED <<grp, handlers, streams, running, quitSent, calls, loops, nSub,
                       failedSubs, delivered, ackCalls, done, dropped, published, spans, spanCalls,
                       subDone, serviceVars, evals>>

\* publish after its await: the reply of XADD has arrived; the connection
\* delivers the replies in the order of the commands.  withSpan ends the
\* span, after it recorded the error of a rejected append, and the call
\* returns the id the broker assigned, or raises the error to the caller.
PublishReturn ==
    /\ publishing # <<>>
    /\ \E call \in {Head(publishing)} :
          published' = published \cup
             {PublishedRec(call.eventType, call.stream, call.active, call.xadd.throws,
                           withSpan(tracing, PublishSpanName(call.eventType),
                                    call.xadd, ProducerSpan))}
    /\ publishing' = Tail(publishing)
    /\ UNCHANGED <<log, grp, handlers, streams, running, quitSent, calls, loops, nSub,
                   failedSubs, delivered, ackCalls, done, dropped, spans, spanCalls,
                   subDone, tracing, serviceVars, evals>>

\* RedisStreamsClient.publish(stream, envelope): the caller names the stream.
ClientPublish(stream, envelope) ==
    /\ log' = XAdd(stream, ClientFields(envelope))
    /\ UNCHANGED <<grp, handlers, streams, running, quitSent, calls, loops, nSub,
                       tracing, publishing, serviceVars>>
    /\ UNCHANGED histVars

\* Another producer of the broker appends a message the consumer has to cope with.
ForeignAppend(stream, fields) ==
    /\ log' = XAdd(stream, fields)
    /\ UNCHANGED <<grp, handlers, streams, running, quitSent, calls, loops, nSub,
                       tracing, publishing, serviceVars>>
    /\ UNCHANGED histVars

(***************************************************************************)
(* The poll loop's positions.                                              *)
(***************************************************************************)
ExitedLoop ==
    [pc |-> "exited", snap |-> <<>>, closed |-> FALSE, nogroup |-> FALSE, batch |-> <<>>,
     cur |-> None, path |-> "none", h |-> "none", outcome |-> "none", ack |-> "none"]

\* XREADGROUP GROUP group ...: the broker rejects the command with NOGROUP
\* when one of its streams has no such group.
GroupsExist(snap, group) == \A i \in 1..Len(snap) : group \in DOMAIN grp[snap[i]]

IterStartFirstStream(isRunning, subscribed, quit) ==
    IF isRunning
    THEN [ExitedLoop EXCEPT !.pc = "reading", !.snap = SubSeq(subscribed, 1, 1),
                            !.closed = quit,
                            !.nogroup = ~GroupsExist(SubSeq(subscribed, 1, 1), GroupName)]
    ELSE ExitedLoop

\* `while (this.running)` followed, when it holds, by the XREADGROUP command
\* over the streams subscribed at that moment, each with id '>'.  The client
\* rejects the command on a connection that was quit; the broker, which
\* executes the commands of a connection in the order they were sent,
\* rejects it when a group is missing at that moment, whatever is created
\* while the reply is outstanding.
IterStart(isRunning, subscribed, quit) ==
    IF isRunning
    THEN [ExitedLoop EXCEPT !.pc = "reading", !.snap = subscribed, !.closed = quit,
                            !.nogroup = ~GroupsExist(subscribed, GroupName)]
    ELSE ExitedLoop

NewIdsFromStart(stream, group) ==
    IF Len(log[stream]) > grp[stream][group].last
    THEN 1 .. Min(ReadCount, Len(log[stream]))
    ELSE {}

NewIdsFromOldestPending(stream, group) ==
    LET pel == grp[stream][group].pel
        lo == IF pel = {} THEN grp[stream][group].last + 1
              ELSE CHOOSE i \in pel : \A j \in pel : i <= j
    IN  lo .. Min(lo + ReadCount - 1, Len(log[stream]))

\* The entries XREADGROUP ... COUNT n ... '>' hands out for one stream.
NewIds(stream, group) ==
    (grp[stream][group].last + 1) ..
        Min(grp[stream][group].last + ReadCount, Len(log[stream]))

IdSeqDescending(stream, ids) ==
    LET hi == CHOOSE i \in ids : \A j \in ids : i >= j
    IN  [k \in 1..Cardinality(ids) |-> [stream |-> stream, id |-> hi - k + 1]]

\* The entries of one stream in a reply, in the order of their ids.
IdSeq(stream, ids) ==
    LET lo == CHOOSE i \in ids : \A j \in ids : i <= j
    IN  [k \in 1..Cardinality(ids) |-> [stream |-> stream, id |-> lo + k - 1]]

ReadBatch(snap, group) ==
    LET b[n \in 0..Len(snap)] ==
            IF n = 0 THEN <<>>
            ELSE IF NewIds(snap[n], group) = {} THEN b[n - 1]
            ELSE b[n - 1] \o IdSeq(snap[n], NewIds(snap[n], group))
    IN  b[Len(snap)]

(***************************************************************************)
(* RedisStreamsConsumer.subscribe                                          *)
(***************************************************************************)
Replies == {"created", "BUSYGROUP", "error", "closed"}

\* Replies XGROUP CREATE stream group 0 MKSTREAM can get: on a connection that
\* was quit the command is rejected, otherwise the broker creates the group
\* or answers BUSYGROUP, or the command fails with some other error.
XGroupCreateResults(c, stream) ==
    IF quitSent[c] THEN {"closed"}
    ELSE {"error"} \cup (IF ConsumerGroup(c) \in DOMAIN grp[stream]
                         THEN {"BUSYGROUP"} ELSE {"created"})

XGroupCreateAnew(stream, group, res) ==
    IF res \in {"created", "BUSYGROUP"}
    THEN [grp EXCEPT ![stream] = MapSet(@, group, [last |-> 0, pel |-> {}])]
    ELSE grp

XGroupCreateAtEnd(stream, group, res) ==
    IF res = "created"
    THEN [grp EXCEPT ![stream] = MapSet(@, group, [last |-> Len(log[stream]), pel |-> {}])]
    ELSE grp

\* The effect of XGROUP CREATE stream group 0 MKSTREAM on the broker: the
\* group is created with last-delivered id 0 and no pending entries; with
\* any other reply the broker is unchanged.
XGroupCreate(stream, group, res) ==
    IF res = "created"
    THEN [grp EXCEPT ![stream] = MapSet(@, group, [last |-> 0, pel |-> {}])]
    ELSE grp

RegisterFirstHandler(bound, eventType, handler) ==
    IF eventType \in DOMAIN bound THEN bound ELSE MapSet(bound, eventType, handler)

\* this.handlers.set(eventType, handler): the handler bound to the event type
\* is replaced.
RegisterHandler(bound, eventType, handler) == MapSet(bound, eventType, handler)

\* subscribe up to its await: the handler is registered and the stream is
\* added to the polled set before the group is created.
SubscribeCall(c, eventType, handler, res) ==
    LET stream == ConsumerGetStreamName(eventType)
    IN  /\ res \in XGroupCreateResults(c, stream)
        /\ nSub' = [nSub EXCEPT ![c] = @ + 1]
        /\ handlers' = [handlers EXCEPT ![c] = RegisterHandler(@, eventType, handler)]
        /\ streams' = [streams EXCEPT ![c] = SetAdd(@, stream)]
        /\ grp' = XGroupCreate(stream, ConsumerGroup(c), res)
        /\ calls' = [calls EXCEPT ![c] =
                        Append(@, [eventType |-> eventType, handler |-> handler,
                                   stream |-> stream, result |-> res])]
        /\ UNCHANGED <<log, running, quitSent, loops, tracing, publishing, serviceVars>>
        /\ UNCHANGED histVars

\* The catch of subscribe: only an error whose message holds BUSYGROUP is
\* passed over in silence; any other error is logged.  Nothing is undone.
CreationFailed(result) == result \notin {"created", "BUSYGROUP"}

AlwaysStart(c) == TRUE

\* `if (!this.running)`: subscribe starts the poll loop only when the instance
\* is not running.
NotRunning(c) == ~running[c]

\* How a subscribe call settles.  The catch reads error.message of the error
\* XGROUP CREATE was rejected with; the errors of the client and the broker are
\* Error objects, so the catch completes and subscribe returns.
SubscribeSettled(c, call) ==
    [c |-> c, eventType |-> call.eventType, stream |-> call.stream,
     result |-> call.result,
     logged |-> CreationFailed(call.result),
     raised |-> FALSE]

\* subscribe after its await: the error, if any, is logged, and the poll loop
\* is started when the instance is not running.
SubscribeResume(c, i) ==
    LET call == calls[c][i]
    IN  /\ i \in 1..Len(calls[c])
        /\ calls' = [calls EXCEPT ![c] = RemoveAt(@, i)]
        /\ failedSubs' = [failedSubs EXCEPT ![c] =
                             IF CreationFailed(call.result)
                             THEN @ \cup {call.eventType} ELSE @ \ {call.eventType}]
        /\ IF NotRunning(c)
           THEN /\ running' = [running EXCEPT ![c] = TRUE]
                /\ loops' = [loops EXCEPT ![c] =
                                Append(@, IterStart(TRUE, streams[c], quitSent[c]))]
           ELSE UNCHANGED <<running, loops>>
        /\ subDone' = subDone \cup {SubscribeSettled(c, call)}
        /\ UNCHANGED <<log, grp, handlers, streams, quitSent, nSub,
                       delivered, ackCalls, done, dropped, published, spans, spanCalls,
                       tracing, publishing, serviceVars, evals>>

(***************************************************************************)
(* RedisStreamsConsumer.stop                                               *)
(***************************************************************************)
Stop(c) ==
    /\ running' = [running EXCEPT ![c] = FALSE]
    /\ quitSent' = [quitSent EXCEPT ![c] = TRUE]
    /\ UNCHANGED <<log, grp, handlers, streams, calls, loops, nSub,
                   failedSubs, delivered, ackCalls, done, dropped, published, spans, spanCalls, subDone,
                   tracing, publishing, serviceVars, evals>>

(***************************************************************************)
(* RedisStreamsConsumer.startConsuming                                     *)
(***************************************************************************)
SetLoop(c, i, rec) == [loops EXCEPT ![c][i] = rec]

AtPc(c, i, pc) == i \in 1..Len(loops[c]) /\ loops[c][i].pc = pc

\* The read of loop i was accepted by the client and by the broker.
ReadServed(c, i) ==
    /\ AtPc(c, i, "reading")
    /\ ~loops[c][i].closed
    /\ ~loops[c][i].nogroup

OnReadErrorExit(lp) == ExitedLoop

\* The catch of the poll loop: the error is logged and the loop waits for the
\* backoff interval.
OnReadError(lp) == [lp EXCEPT !.pc = "backoff"]

\* The reply of a read that the client or the broker rejected reaches the
\* loop: the read was issued on a connection that was quit, or a stream of
\* the command had no such group when the broker executed it (NOGROUP).  The
\* catch logs the error and the loop backs off.
ReadRejected(c, i) ==
    /\ AtPc(c, i, "reading")
    /\ ~ReadServed(c, i)
    /\ loops' = SetLoop(c, i, OnReadError(loops[c][i]))
    /\ UNCHANGED <<log, grp, handlers, streams, running, quitSent, calls, nSub,
                       tracing, publishing, serviceVars>>
    /\ UNCHANGED histVars

\* The read fails with a transport error, which can happen to any read.
ReadError(c, i) ==
    /\ AtPc(c, i, "reading")
    /\ loops' = SetLoop(c, i, OnReadError(loops[c][i]))
    /\ UNCHANGED <<log, grp, handlers, streams, running, quitSent, calls, nSub,
                       tracing, publishing, serviceVars>>
    /\ UNCHANGED histVars

\* The read returns new entries: the broker moves the group's last-delivered
\* id and puts the entries on the group's pending list.
ReadEntries(c, i) ==
    LET g == ConsumerGroup(c)
        snap == loops[c][i].snap
        batch == ReadBatch(snap, g)
    IN  /\ ReadServed(c, i)
        /\ batch # <<>>
        /\ grp' = [s \in Streams |->
                     IF s \in Range(snap) /\ NewIds(s, g) # {}
                     THEN [grp[s] EXCEPT ![g] =
                              [last |-> @.last + Cardinality(NewIds(s, g)),
                               pel |-> @.pel \cup NewIds(s, g)]]
                     ELSE grp[s]]
        /\ delivered' = delivered \cup {<<c, batch[k].stream, batch[k].id>> : k \in 1..Len(batch)}
        /\ loops' = SetLoop(c, i, [loops[c][i] EXCEPT !.pc = "next", !.batch = batch])
        /\ UNCHANGED <<log, handlers, streams, running, quitSent, calls, nSub,
                       failedSubs, ackCalls, done, dropped, published, spans, spanCalls, subDone,
                       tracing, publishing, serviceVars, evals>>

\* The read times out with no new entry: the next iteration begins.
ReadNull(c, i) ==
    /\ ReadServed(c, i)
    /\ ReadBatch(loops[c][i].snap, ConsumerGroup(c)) = <<>>
    /\ loops' = SetLoop(c, i, IterStart(running[c], streams[c], quitSent[c]))
    /\ UNCHANGED <<log, grp, handlers, streams, running, quitSent, calls, nSub,
                       tracing, publishing, serviceVars>>
    /\ UNCHANGED histVars

\* The backoff timer fires: the next iteration begins.
BackoffDone(c, i) ==
    /\ AtPc(c, i, "backoff")
    /\ loops' = SetLoop(c, i, IterStart(running[c], streams[c], quitSent[c]))
    /\ UNCHANGED <<log, grp, handlers, streams, running, quitSent, calls, nSub,
                       tracing, publishing, serviceVars>>
    /\ UNCHANGED histVars

(***************************************************************************)
(* RedisStreamsConsumer.processMessage                                     *)
(***************************************************************************)
HandlerForStream(c, envelope) ==
    IF DOMAIN handlers[c] # {}
    THEN handlers[c][CHOOSE T \in DOMAIN handlers[c] : TRUE]
    ELSE "none"

\* this.handlers.get(envelope.eventType)
HandlerFor(c, envelope) ==
    IF envelope.eventType.t = "str" /\ envelope.eventType.s \in DOMAIN handlers[c]
    THEN handlers[c][envelope.eventType.s]
    ELSE "none"

SkipsUnhandled(d) == FALSE

\* `if (handler) { await handler(envelope) }` inside the consumer span: with
\* no handler the span callback returns; withSpan, which awaits it, returns
\* in its turn, and the XACK on the next line is issued.
AcksUnhandled(d) == d.span

\* What a handler invocation can end with: it returns, it raises an Error, or
\* it raises (rejects with) undefined or null.
Outcomes == {"ok", "error", "nullish"}

AckOnAnyOutcome(outcome) == TRUE

\* The XACK after withSpan is reached only when withSpan did not re-raise.
AckOnOutcome(outcome) == outcome = "ok"

\* The catch of processMessage reads error.message, which itself raises when
\* the caught value is undefined or null.
CatchRaises(outcome) == outcome = "nullish"

\* Replies XACK can get: it is rejected on a connection that was quit,
\* otherwise the entry leaves the group's pending list.
XackResults(c) == IF quitSent[c] THEN {"failed"} ELSE {"ok"}

XackEffect(c, m, res) ==
    IF res = "ok"
    THEN [grp EXCEPT ![m.stream][ConsumerGroup(c)].pel = @ \ {m.id}]
    ELSE grp

AckCount(key) == IF key \in DOMAIN ackCalls THEN ackCalls[key] ELSE 0

\* What processMessage did with message m: the path it took, the envelope it
\* built from the message on the dispatch path, the handler it invoked and
\* how that ended, and the reply to its XACK.
DoneRec(c, m, path, h, outcome, xack, escaped) ==
    [c |-> c, stream |-> m.stream, id |-> m.id, path |-> path,
     envelope |-> IF path = "dispatch" THEN ProcessStart(log[m.stream][m.id]).envelope
                  ELSE None,
     h |-> h, outcome |-> outcome, xack |-> xack, span |-> path = "dispatch",
     escaped |-> escaped]

\* `await this.client.xack(stream, group, messageId)` is issued by loop i.
IssueXack(c, i, m, rec) ==
    \E res \in XackResults(c) :
        /\ grp' = XackEffect(c, m, res)
        /\ ackCalls' = MapSet(ackCalls, <<m.stream, m.id>>, AckCount(<<m.stream, m.id>>) + 1)
        /\ loops' = SetLoop(c, i, [rec EXCEPT !.pc = "acking", !.cur = m, !.ack = res])

BatchDoneOrStopped(c, lp) == lp.batch = <<>> \/ ~running[c]

\* The for loops over the reply end when its last message was processed;
\* this.running is not read inside them.
BatchDone(c, lp) == lp.batch = <<>>

\* The for loops over the batch: the next message is handed to processMessage,
\* which runs to its first await: the XACK of a message without an envelope,
\* the handler it found, or, with no handler, the callback of the consumer
\* span that returned.  After the last message the next iteration of the
\* while loop begins.
Process(c, i) ==
    LET lp == loops[c][i]
        m == Head(lp.batch)
    IN  /\ AtPc(c, i, "next")
        /\ IF BatchDone(c, lp)
           THEN /\ loops' = SetLoop(c, i, IterStart(running[c], streams[c], quitSent[c]))
                /\ UNCHANGED <<grp, ackCalls, done, tracing>>
           ELSE \E d \in {ProcessStart(log[m.stream][m.id])} :
                \E started \in {IF d.span THEN getTracer(tracing, ProcessEnv).state
                                 ELSE tracing} :
                \E h \in {IF d.span THEN HandlerFor(c, d.envelope) ELSE "none"} :
                \E rec \in {[lp EXCEPT !.batch = Tail(lp.batch), !.path = d.path]} :
                   /\ tracing' = started
                   /\ IF h # "none"
                      THEN /\ loops' = SetLoop(c, i, [rec EXCEPT !.pc = "handling",
                                                                 !.cur = m, !.h = h])
                           /\ UNCHANGED <<grp, ackCalls, done>>
                      ELSE IF AcksUnhandled(d)
                      THEN /\ loops' = SetLoop(c, i, [rec EXCEPT !.pc = "returning",
                                                                 !.cur = m])
                           /\ UNCHANGED <<grp, ackCalls, done>>
                      ELSE IF d.xack
                      THEN /\ IssueXack(c, i, m, rec)
                           /\ UNCHANGED done
                      ELSE /\ loops' = SetLoop(c, i, [rec EXCEPT !.path = "none"])
                           /\ done' = done \cup
                                 {DoneRec(c, m, d.path, "none", "none", "none", FALSE)}
                           /\ UNCHANGED <<grp, ackCalls>>
        /\ UNCHANGED <<log, handlers, streams, running, quitSent, calls, nSub,
                       failedSubs, delivered, dropped, published, spans, spanCalls, subDone,
                       publishing, serviceVars, evals>>

\* The awaited callback of the consumer span has settled, as the handler
\* did or, with no handler, by returning, and processMessage runs on after
\* its await of withSpan.  withSpan has recorded an exception and ended the
\* span; processMessage acknowledges, or its catch logs the failure.
HandlerDone(c, i, outcome) ==
    LET lp == loops[c][i]
        m == lp.cur
        idle == [lp EXCEPT !.cur = None, !.path = "none", !.h = "none"]
    IN  /\ AtPc(c, i, "handling") \/ (AtPc(c, i, "returning") /\ outcome = "ok")
        /\ IF AckOnOutcome(outcome)
           THEN /\ IssueXack(c, i, m, [lp EXCEPT !.outcome = IF lp.h = "none" THEN "none"
                                                             ELSE outcome])
                /\ UNCHANGED <<done, dropped>>
           ELSE IF CatchRaises(outcome)
           THEN /\ loops' = SetLoop(c, i, [idle EXCEPT !.pc = "backoff", !.batch = <<>>])
                /\ done' = done \cup {DoneRec(c, m, lp.path, lp.h, outcome, "none", TRUE)}
                /\ dropped' = dropped \cup
                      {<<c, lp.batch[k].stream, lp.batch[k].id>> : k \in 1..Len(lp.batch)}
                /\ UNCHANGED <<grp, ackCalls>>
           ELSE /\ loops' = SetLoop(c, i, [idle EXCEPT !.pc = "next"])
                /\ done' = done \cup {DoneRec(c, m, lp.path, lp.h, outcome, "none", FALSE)}
                /\ UNCHANGED <<grp, ackCalls, dropped>>
        /\ UNCHANGED <<log, handlers, streams, running, quitSent, calls, nSub,
                       failedSubs, delivered, published, spans, spanCalls, subDone,
                       tracing, publishing, serviceVars, evals>>

\* The awaited XACK settles; a rejection is caught and logged.
AckReturn(c, i) ==
    LET lp == loops[c][i]
    IN  /\ AtPc(c, i, "acking")
        /\ done' = done \cup {DoneRec(c, lp.cur, lp.path, lp.h, lp.outcome, lp.ack, FALSE)}
        /\ loops' = SetLoop(c, i, [lp EXCEPT !.pc = "next", !.cur = None, !.path = "none",
                                             !.h = "none", !.outcome = "none", !.ack = "none"])
        /\ UNCHANGED <<log, grp, handlers, streams, running, quitSent, calls, nSub,
                       failedSubs, delivered, ackCalls, dropped, published, spans, spanCalls, subDone,
                       tracing, publishing, serviceVars, evals>>

(***************************************************************************)
(* Specification Spec: one consumer instance on a broker that serves every *)
(* command, producers that append well-formed and malformed messages, and  *)
(* handlers that return or raise.                                          *)
(***************************************************************************)
Instances == {"c1"}
LoopIds == 1..(MaxSubscribes + 1)

Produce ==
    \/ \E T \in EventTypes, u \in UUIDs :
          /\ TotalEntries < MaxEntries
          /\ ClientPublish(ConsumerGetStreamName(T), PublishedEnvelope(T, u))
    \/ \E f \in ForeignMessages :
          /\ TotalEntries < MaxEntries
          /\ ForeignAppend(ConsumerGetStreamName(OrderCreated), f)

Poll(c) ==
    \/ \E i \in LoopIds : ReadRejected(c, i)
    \/ \E i \in LoopIds : ReadEntries(c, i)
    \/ \E i \in LoopIds : ReadNull(c, i)
    \/ \E i \in LoopIds : BackoffDone(c, i)
    \/ \E i \in LoopIds : Process(c, i)
    \/ \E i \in LoopIds, o \in Outcomes : HandlerDone(c, i, o)
    \/ \E i \in LoopIds : AckReturn(c, i)

Consume(c) ==
    \/ \E T \in EventTypes, res \in Replies :
          /\ nSub[c] < MaxSubscribes
          /\ SubscribeCall(c, T, "h1", res)
    \/ \E i \in LoopIds : SubscribeResume(c, i)
    \/ Poll(c)

Next == Produce \/ \E c \in Instances : Consume(c)

Spec == Init /\ [][Next]_vars

(***************************************************************************)
(* Specification SpecLife: the life cycle of one instance.  subscribe and  *)
(* stop are called in any order, and reads fail with transport errors.     *)
(***************************************************************************)
LifeEntries == 1

LifeNext ==
    \/ /\ TotalEntries < LifeEntries
       /\ \E u \in UUIDs : ClientPublish(ConsumerGetStreamName(OrderCreated),
                                         PublishedEnvelope(OrderCreated, u))
    \/ \E c \in Instances :
          \/ \E res \in Replies :
                /\ nSub[c] < MaxSubscribes
                /\ SubscribeCall(c, OrderCreated, "h1", res)
          \/ \E i \in LoopIds : SubscribeResume(c, i)
          \/ Stop(c)
          \/ \E i \in LoopIds : ReadError(c, i)
          \/ Poll(c)

SpecLife == Init /\ [][LifeNext]_vars

\* The timer of the backoff wait fires.
FairLife == SpecLife /\ \A c \in Instances : \A i \in LoopIds : WF_vars(BackoffDone(c, i))

(***************************************************************************)
(* Specification SpecStop: the life cycle of one instance on which no      *)
(* subscribe call is made once stop() has been called.  A subscribe call   *)
(* made before stop() may still be suspended at its await.                 *)
(***************************************************************************)
StopNext ==
    \/ /\ TotalEntries < LifeEntries
       /\ \E u \in UUIDs : ClientPublish(ConsumerGetStreamName(OrderCreated),
                                         PublishedEnvelope(OrderCreated, u))
    \/ \E c \in Instances :
          \/ \E res \in Replies :
                /\ nSub[c] < MaxSubscribes
                /\ ~quitSent[c]
                /\ SubscribeCall(c, OrderCreated, "h1", res)
          \/ \E i \in LoopIds : SubscribeResume(c, i)
          \/ Stop(c)
          \/ \E i \in LoopIds : ReadError(c, i)
          \/ Poll(c)

SpecStop == Init /\ [][StopNext]_vars

(***************************************************************************)
(* Specification SpecCoop: stop() is called on an instance only while one  *)
(* of its handlers is running, and no subscribe call is made afterwards.   *)
(***************************************************************************)
CoopNext ==
    \/ /\ TotalEntries < LifeEntries
       /\ \E u \in UUIDs : ClientPublish(ConsumerGetStreamName(OrderCreated),
                                         PublishedEnvelope(OrderCreated, u))
    \/ \E c \in Instances :
          \/ \E res \in Replies :
                /\ nSub[c] < MaxSubscribes
                /\ ~quitSent[c]
                /\ SubscribeCall(c, OrderCreated, "h1", res)
          \/ \E i \in LoopIds : SubscribeResume(c, i)
          \/ /\ \E i \in LoopIds : AtPc(c, i, "handling")
             /\ Stop(c)
          \/ Poll(c)

SpecCoop == Init /\ [][CoopNext]_vars

(***************************************************************************)
(* Specification SpecSpan: withSpan is called with the names, options and  *)
(* functions its callers give it; fn returns a value or raises, at any     *)
(* time after it was called.                                               *)
(***************************************************************************)
MaxSpans == 2

SpanNames == {<<"p","u","b","l","i","s","h">>, <<"c","o","n","s","u","m","e">>}
SpanOptions ==
    {Obj([kind |-> Str(<<"P","R","O","D","U","C","E","R">>)]),
     Obj([kind |-> Str(<<"C","O","N","S","U","M","E","R">>), parentContext |-> Undefined]),
     Obj([kind |-> Str(<<"C","O","N","S","U","M","E","R">>), parentContext |-> Obj([remote |-> Str(<<"a">>)])]),
     Obj([x \in {} |-> Undefined])}
Errors == {Obj([message |-> Str(<<"b","o","o","m">>)]), Undefined, Null}
FnResults == {Returned(Str(<<"1","-","0">>)), Returned(Undefined)} \cup {Thrown(e) : e \in Errors}

\* withSpan up to its await: the span is created with the tracer of the
\* process, which the first call initialises, and fn is called with it.
WithSpanCall(name, options) ==
    /\ spanCalls' = Append(spanCalls,
          [name |-> name, options |-> options, before |-> tracing,
           span |-> <<createSpan(tracing, name, options).span>>])
    /\ tracing' = createSpan(tracing, name, options).state
    /\ UNCHANGED <<log, grp, handlers, streams, running, quitSent, calls, loops, nSub,
                   failedSubs, delivered, ackCalls, done, dropped, published, spans,
                   subDone, publishing, serviceVars, evals>>

\* withSpan after its await: fn has settled.  The catch records what fn
\* raised, the finally ends the span, and the call settles as fn did.
WithSpanSettle(i, settled) ==
    /\ i \in 1..Len(spanCalls)
    /\ spans' = spans \cup {withSpan(spanCalls[i].before, spanCalls[i].name, settled,
                                     spanCalls[i].options)}
    /\ spanCalls' = RemoveAt(spanCalls, i)
    /\ UNCHANGED <<log, grp, handlers, streams, running, quitSent, calls, loops, nSub,
                   failedSubs, delivered, ackCalls, done, dropped, published, subDone,
                   tracing, publishing, serviceVars, evals>>

\* A call of the exported createSpan on its own: the span is started and
\* handed to the caller, and the tracer of the process is initialised.
CreateSpanCall(name, options) ==
    /\ evals' = evals \cup {[fn |-> "createSpan", name |-> name, options |-> options,
                              before |-> tracing,
                              span |-> createSpan(tracing, name, options).span]}
    /\ tracing' = createSpan(tracing, name, options).state
    /\ UNCHANGED <<log, grp, handlers, streams, running, quitSent, calls, loops, nSub,
                   failedSubs, delivered, ackCalls, done, dropped, published, spans, spanCalls,
                   subDone, publishing, serviceVars>>

\* The calls made so far: settled, suspended, and of createSpan.
SpanCallsMade == Cardinality(spans) + Len(spanCalls) + Cardinality(evals)

SpanNext ==
    \/ /\ SpanCallsMade < MaxSpans
       /\ \E name \in SpanNames, options \in SpanOptions : WithSpanCall(name, options)
    \/ \E i \in 1..Len(spanCalls), settled \in FnResults : WithSpanSettle(i, settled)
    \/ /\ SpanCallsMade < MaxSpans
       /\ \E name \in SpanNames, options \in SpanOptions : CreateSpanCall(name, options)

SpecSpan == Init /\ [][SpanNext]_vars

(***************************************************************************)
(* Specification SpecGroup: two instances in one consumer group on a       *)
(* broker that serves every command, with a handler that returns.          *)
(***************************************************************************)
GroupSubscribes == 1
GroupEntries == 3
GroupLoopIds == 1..(GroupSubscribes + 1)

PollOk(c) ==
    \/ \E i \in GroupLoopIds : ReadEntries(c, i)
    \/ \E i \in GroupLoopIds : ReadNull(c, i)
    \/ \E i \in GroupLoopIds : Process(c, i)
    \/ \E i \in GroupLoopIds : HandlerDone(c, i, "ok")
    \/ \E i \in GroupLoopIds : AckReturn(c, i)

GroupNext ==
    \/ /\ TotalEntries < GroupEntries
       /\ \E u \in UUIDs : ClientPublish(ConsumerGetStreamName(OrderCreated),
                                         PublishedEnvelope(OrderCreated, u))
    \/ \E c \in Consumers :
          \/ \E res \in {"created", "BUSYGROUP"} :
                /\ nSub[c] < GroupSubscribes
                /\ SubscribeCall(c, OrderCreated, "h1", res)
          \/ \E i \in GroupLoopIds : SubscribeResume(c, i)
          \/ PollOk(c)

\* The event loop of each instance runs the continuations that are ready, and
\* the handler of the scenario returns.
SpecGroup == Init /\ [][GroupNext]_vars /\ \A c \in Consumers : WF_vars(PollOk(c))

(***************************************************************************)
(* Specification SpecNaming: EventPublisher publishes event types to which *)
(* a consumer instance subscribes.  publish is called until MaxPublishes    *)
(* calls have settled or are suspended.                                    *)
(***************************************************************************)
MaxPublishes == 2

NamingNext ==
    \/ /\ TotalEntries < MaxEntries
       /\ Cardinality(published) + Len(publishing) < MaxPublishes
       /\ \E T \in EventTypes, u \in UUIDs, active \in ActiveContexts, ok \in BOOLEAN :
             PublishCall(T, u, active, ok)
    \/ PublishReturn
    \/ \E c \in Instances :
          \/ \E T \in EventTypes, res \in {"created", "BUSYGROUP"} :
                /\ nSub[c] < MaxSubscribes
                /\ SubscribeCall(c, T, "h1", res)
          \/ \E i \in LoopIds : SubscribeResume(c, i)
          \/ \E i \in LoopIds : ReadNull(c, i)

SpecNaming == Init /\ [][NamingNext]_vars

(***************************************************************************)
(* Specification SpecDispatch: one instance subscribes handlers to the     *)
(* event types of the order domain, which share one stream, and binds an   *)
(* event type again; producers append events of both types.                *)
(***************************************************************************)
DispatchTypes == {OrderCreated, OrderShipped}

DispatchNext ==
    \/ /\ TotalEntries < MaxEntries
       /\ \E T \in DispatchTypes, u \in UUIDs :
             ClientPublish(ConsumerGetStreamName(T), PublishedEnvelope(T, u))
    \/ \E c \in Instances :
          \/ \E T \in DispatchTypes, h \in Handlers, res \in {"created", "BUSYGROUP"} :
                /\ nSub[c] < MaxSubscribes
                /\ SubscribeCall(c, T, h, res)
          \/ \E i \in LoopIds : SubscribeResume(c, i)
          \/ \E i \in LoopIds : ReadEntries(c, i)
          \/ \E i \in LoopIds : ReadNull(c, i)
          \/ \E i \in LoopIds : Process(c, i)
          \/ \E i \in LoopIds, o \in {"ok", "error"} : HandlerDone(c, i, o)
          \/ \E i \in LoopIds : AckReturn(c, i)

SpecDispatch == Init /\ [][DispatchNext]_vars

(***************************************************************************)
(* Specification SpecBacklog: producers append to a stream on which the    *)
(* consumer group does not exist yet; then two instances subscribe.        *)
(***************************************************************************)
BacklogNext ==
    \/ /\ TotalEntries < GroupEntries
       /\ GroupName \notin DOMAIN grp[ConsumerGetStreamName(OrderCreated)]
       /\ \E u \in UUIDs : ClientPublish(ConsumerGetStreamName(OrderCreated),
                                         PublishedEnvelope(OrderCreated, u))
    \/ \E c \in Consumers :
          \/ \E res \in {"created", "BUSYGROUP"} :
                /\ nSub[c] < GroupSubscribes
                /\ SubscribeCall(c, OrderCreated, "h1", res)
          \/ \E i \in GroupLoopIds : SubscribeResume(c, i)
          \/ PollOk(c)

SpecBacklog == Init /\ [][BacklogNext]_vars /\ \A c \in Consumers : WF_vars(PollOk(c))

(***************************************************************************)
(* Calls of the pure functions of the library (getStreamName,              *)
(* injectTraceContext) are recorded in evals.                              *)
(***************************************************************************)
MaxEvals == 2

\* A call of a function that reads and writes no state of the process is
\* recorded with its arguments and its result.
Eval(rec) ==
    /\ evals' = evals \cup {rec}
    /\ UNCHANGED <<log, grp, handlers, streams, running, quitSent, calls, loops, nSub,
                   failedSubs, delivered, ackCalls, done, dropped, published, spans, spanCalls,
                   subDone, tracing, publishing, serviceVars>>

(***************************************************************************)
(* Specification SpecCodec: producers encode valid envelopes in one of the *)
(* two field-naming dialects and append them to the order stream; a        *)
(* consumer instance subscribes a handler to the event type, reads the     *)
(* entries, decodes each one, runs the handler on the envelope inside a    *)
(* consumer span and acknowledges the entry.                               *)
(***************************************************************************)
MaxEncoded == 1

EnvelopeFields == {"eventId", "eventType", "timestamp", "source", "version",
                   "correlationId", "causationId", "traceContext", "metadata", "data"}

\* The options a producer passes to createEventEnvelope: each optional field
\* is absent or a value of its type.
OptionValues ==
    [correlationId : {Undefined, Str(<<"c","-","1">>), Str(<<>>)},
     causationId : {Undefined, Str(<<"e","-","0">>)},
     traceContext : {Undefined, ActiveTraceContext, Obj([x \in {} |-> Undefined])},
     metadata : {Undefined, Obj([tenant |-> Str(<<"t","1">>)])}]

ValidEnvelopes ==
    {createEventEnvelope(OrderCreated, ServiceName, SampleData, Obj(o), u) :
        o \in OptionValues, u \in UUIDs}

\* The name of an envelope field in the snake_case dialect.
SnakeName(k) ==
    CASE k = "eventId" -> "event_id"
      [] k = "eventType" -> "event_type"
      [] k = "correlationId" -> "correlation_id"
      [] k = "causationId" -> "causation_id"
      [] k = "traceContext" -> "trace_context"
      [] OTHER -> k

Dialects == {"camelCase", "snake_case"}

\* The envelope as a producer of the dialect writes it.
InDialect(envelope, dialect) ==
    IF dialect = "camelCase" THEN envelope
    ELSE Obj([n \in {SnakeName(k) : k \in DOMAIN envelope.o} |->
                envelope.o[CHOOSE k \in DOMAIN envelope.o : SnakeName(k) = n]])

\* The broker message of an encoded envelope: the JSON text under the field
\* `data` or `payload`.
Encode(envelope, dialect, wrapper) == <<wrapper, JSONStringify(InDialect(envelope, dialect))>>

Wrappers == {"data", "payload"}

CodecNext ==
    \/ /\ TotalEntries < MaxEncoded
       /\ \E envelope \in ValidEnvelopes, dialect \in Dialects, wrapper \in Wrappers :
             ForeignAppend(ConsumerGetStreamName(OrderCreated),
                           Encode(envelope, dialect, wrapper))
    \/ \E c \in Instances :
          \/ \E res \in {"created", "BUSYGROUP"} :
                /\ nSub[c] < MaxSubscribes
                /\ SubscribeCall(c, OrderCreated, "h1", res)
          \/ \E i \in LoopIds : SubscribeResume(c, i)
          \/ \E i \in LoopIds : ReadEntries(c, i)
          \/ \E i \in LoopIds : ReadNull(c, i)
          \/ \E i \in LoopIds : Process(c, i)
          \/ \E i \in LoopIds, o \in {"ok", "error"} : HandlerDone(c, i, o)
          \/ \E i \in LoopIds : AckReturn(c, i)

SpecCodec == Init /\ [][CodecNext]_vars

(***************************************************************************)
(* Specification SpecInvalid: publish and subscribe are called with event  *)
(* types that have no domain segment, and with a well-formed one.          *)
(***************************************************************************)
InvalidNext ==
    \/ /\ TotalEntries < MaxEntries
       /\ Cardinality(published) + Len(publishing) < MaxPublishes
       /\ \E T \in MalformedTypes \cup {OrderCreated}, u \in UUIDs, ok \in BOOLEAN :
             \E active \in AmbientContexts(tracing) : PublishCall(T, u, active, ok)
    \/ PublishReturn
    \/ \E c \in Instances :
          \/ \E T \in MalformedTypes \cup {OrderCreated}, res \in {"created", "BUSYGROUP"} :
                /\ nSub[c] < MaxSubscribes
                /\ SubscribeCall(c, T, "h1", res)
          \/ \E i \in LoopIds : SubscribeResume(c, i)
          \/ \E i \in LoopIds : ReadNull(c, i)

SpecInvalid == Init /\ [][InvalidNext]_vars

(***************************************************************************)
(* Specification SpecTopology: EventPublisher instances with different     *)
(* stream prefixes resolve stream names while events are published, by     *)
(* callers that run in no span.                                            *)
(***************************************************************************)
TopologyTypes == EventTypes \cup {OrderShipped, OrderOnly}
StreamPrefixes == {DefaultStreamPrefix, <<"a","p","p">>}

\* EventPublisher.getStreamName of a publisher constructed with streamPrefix.
Resolve(streamPrefix, eventType) ==
    Eval([fn |-> "getStreamName", streamPrefix |-> streamPrefix, eventType |-> eventType,
          stream |-> PublisherGetStreamName(streamPrefix, eventType)])

TopologyNext ==
    \/ /\ Cardinality(evals) < MaxEvals
       /\ \E streamPrefix \in StreamPrefixes, T \in TopologyTypes : Resolve(streamPrefix, T)
    \/ /\ TotalEntries < MaxEntries
       /\ Cardinality(published) + Len(publishing) < MaxPublishes
       /\ \E T \in TopologyTypes, u \in UUIDs, ok \in BOOLEAN : PublishCall(T, u, NoSpan, ok)
    \/ PublishReturn

SpecTopology == Init /\ [][TopologyNext]_vars

(***************************************************************************)
(* Specification SpecTracer: initTracer and getTracer are called in any    *)
(* order, with different configs and environments, spans are created, and  *)
(* withSpan is called with functions that have not settled yet.            *)
(***************************************************************************)
MaxCalls == 3

TracerConfigs ==
    {Obj([x \in {} |-> Undefined]),
     Obj([serviceName |-> Str(ServiceName)]),
     Obj([serviceName |-> Str(<<"o","t","h","e","r">>), serviceVersion |-> Str(<<"2",".","0",".","0">>)])}

Environments ==
    {Obj([x \in {} |-> Undefined]), Obj([OTEL_SERVICE_NAME |-> Str(<<"e","n","v">>)])}

InitTracerCall(config, env) ==
    \E call \in {initTracer(tracing, config, env)} :
        /\ tracing' = call.state
        /\ evals' = evals \cup {[fn |-> "initTracer", config |-> config, env |-> env,
                                 returned |-> call.returned]}
        /\ UNCHANGED <<log, grp, handlers, streams, running, quitSent, calls, loops, nSub,
                       failedSubs, delivered, ackCalls, done, dropped, published, spans, spanCalls,
                       subDone>>
        /\ UNCHANGED <<serviceVars, publishing>>

GetTracerCall(env) ==
    \E call \in {getTracer(tracing, env)} :
        /\ tracing' = call.state
        /\ evals' = evals \cup {[fn |-> "getTracer", config |-> Undefined, env |-> env,
                                 returned |-> call.returned]}
        /\ UNCHANGED <<log, grp, handlers, streams, running, quitSent, calls, loops, nSub,
                       failedSubs, delivered, ackCalls, done, dropped, published, spans, spanCalls,
                       subDone>>
        /\ UNCHANGED <<serviceVars, publishing>>

TracerNext ==
    /\ Cardinality(evals) + Len(spanCalls) < MaxCalls
    /\ \/ \E config \in TracerConfigs, env \in Environments : InitTracerCall(config, env)
       \/ \E env \in Environments : GetTracerCall(env)
       \/ \E name \in SpanNames, options \in SpanOptions : CreateSpanCall(name, options)
       \/ \E name \in SpanNames, options \in SpanOptions : WithSpanCall(name, options)

SpecTracer == Init /\ [][TracerNext]_vars

(***************************************************************************)
(* Specification SpecInject: the tracer is initialised and                 *)
(* injectTraceContext is called on carrier objects inside and outside a    *)
(* span.  An object is its reference and its properties.                   *)
(***************************************************************************)
TraceKeys == {"traceparent", "tracestate"}

injectTraceContextCopy(carrier, active) ==
    [carrier |-> carrier,
     returned |-> [ref |-> carrier.ref + 1, o |-> Injected(active, carrier.o)]]

\* injectTraceContext(carrier): the carrier is written to and returned.
injectTraceContext(carrier, active) ==
    [carrier |-> [ref |-> carrier.ref, o |-> Injected(active, carrier.o)],
     returned |-> [ref |-> carrier.ref, o |-> Injected(active, carrier.o)]]

Carriers ==
    {[ref |-> ref, o |-> o] :
        ref \in {1, 2},
        o \in {[x \in {} |-> Undefined],
               [k \in {"existing-key"} |-> Str(<<"v">>)],
               [k \in {"existing-key", "traceparent"} |->
                   IF k = "traceparent" THEN Str(<<"o","l","d">>) ELSE Str(<<"v">>)],
               [k \in {"b3", "tracestate"} |-> Str(<<"o","l","d">>)]}}

InjectCall(carrier, active) ==
    \E call \in {injectTraceContext(carrier, active)} :
        Eval([fn |-> "injectTraceContext", carrier |-> carrier, active |-> active,
              after |-> call.carrier, returned |-> call.returned])

InjectNext ==
    /\ Cardinality(evals) < MaxEvals
    /\ \/ \E config \in TracerConfigs, env \in Environments : InitTracerCall(config, env)
       \/ \E carrier \in Carriers, active \in AmbientContexts(tracing) :
             InjectCall(carrier, active)

SpecInject == Init /\ [][InjectNext]_vars

(***************************************************************************)
(* Specification SpecBatch: stop() is called while a handler is running on *)
(* a message of a batch; the handlers return or raise an Error.            *)
(***************************************************************************)
LoopStep(c, i) ==
    \/ Process(c, i)
    \/ \E o \in {"ok", "error"} : HandlerDone(c, i, o)
    \/ AckReturn(c, i)

BatchNext ==
    \/ /\ TotalEntries < MaxEntries
       /\ \E u \in UUIDs : ClientPublish(ConsumerGetStreamName(OrderCreated),
                                         PublishedEnvelope(OrderCreated, u))
    \/ \E c \in Instances :
          \/ \E res \in {"created", "BUSYGROUP"} :
                /\ nSub[c] < MaxSubscribes
                /\ ~quitSent[c]
                /\ SubscribeCall(c, OrderCreated, "h1", res)
          \/ \E i \in LoopIds : SubscribeResume(c, i)
          \/ /\ \E i \in LoopIds : AtPc(c, i, "handling")
             /\ Stop(c)
          \/ \E i \in LoopIds : ReadRejected(c, i)
          \/ \E i \in LoopIds : ReadEntries(c, i)
          \/ \E i \in LoopIds : ReadNull(c, i)
          \/ \E i \in LoopIds : BackoffDone(c, i)
          \/ \E i \in LoopIds : LoopStep(c, i)

\* The event loop runs the continuations of each poll loop that are ready,
\* and the handlers settle.
SpecBatch ==
    Init /\ [][BatchNext]_vars
         /\ \A c \in Instances : \A i \in LoopIds : WF_vars(LoopStep(c, i))

(***************************************************************************)
(* Specification SpecMalformed: the stream of a subscribed instance holds  *)
(* well-formed envelopes and JSON payloads that name no event.             *)
(***************************************************************************)
MalformedNext ==
    \/ /\ TotalEntries < MaxEntries
       /\ \E u \in UUIDs : ClientPublish(ConsumerGetStreamName(OrderCreated),
                                         PublishedEnvelope(OrderCreated, u))
    \/ /\ TotalEntries < MaxEntries
       /\ ForeignAppend(ConsumerGetStreamName(OrderCreated), AnonymousFields)
    \/ \E c \in Instances :
          \/ \E res \in {"created", "BUSYGROUP"} :
                /\ nSub[c] < MaxSubscribes
                /\ SubscribeCall(c, OrderCreated, "h1", res)
          \/ \E i \in LoopIds : SubscribeResume(c, i)
          \/ \E i \in LoopIds : ReadEntries(c, i)
          \/ \E i \in LoopIds : ReadNull(c, i)
          \/ \E i \in LoopIds : Process(c, i)
          \/ \E i \in LoopIds, o \in {"ok", "error"} : HandlerDone(c, i, o)
          \/ \E i \in LoopIds : AckReturn(c, i)

SpecMalformed == Init /\ [][MalformedNext]_vars

(***************************************************************************)
(* Specification SpecParent: the context the consumer span of a delivered  *)
(* envelope is started in, for the trace contexts an envelope can carry    *)
(* and the contexts that can be active in the poll loop.                   *)
(***************************************************************************)
TraceContexts ==
    {Undefined,
     Obj([x \in {} |-> Undefined]),
     Obj([traceparent |-> Str(<<"g","a","r","b","a","g","e">>)]),
     Obj([traceparent |-> Str(<<"x","-","y","-","z","-","w">>)]),
     Obj([traceparent |-> Str(TraceParent(Repeat("0", 32), Repeat("b", 16), <<"0","1">>))]),
     Obj([traceparent |-> Str(<<" ">> \o SampledSpan.s)]),
     Obj([traceparent |-> Str(<<"\t">> \o SampledSpan.s \o <<"\n">>)]),
     Obj([traceparent |-> SampledSpan,
          tracestate |-> Str(<<"a","=","1",","," ","b","a","d",","," ","b","=","2">>)]),
     Obj([traceparent |-> SampledSpan, tracestate |-> Obj([v |-> Str(<<"1">>)])]),
     SampledSpan,
     ActiveTraceContext}

\* processMessage of an envelope with this traceContext, in the active
\* context `active`: the parent context is extracted, then withSpan creates
\* the consumer span, which initialises the tracer on the first message of
\* the process.
ConsumerSpanCall(traceContext, active) ==
    \E envelope \in {[traceContext |-> traceContext]} :
    \E parentContext \in {ParentContext(tracing, envelope, active)} :
    \E created \in {createSpan(tracing, <<"c","o","n","s","u","m","e">>,
                     Obj([kind |-> Str(<<"C","O","N","S","U","M","E","R">>),
                          parentContext |-> IF parentContext = Undefined THEN Undefined
                                            ELSE Obj(parentContext)]))} :
        /\ evals' = evals \cup
              {[fn |-> "consumerSpan", traceContext |-> traceContext, active |-> active,
                registered |-> tracing.registered # <<>>, raised |-> FALSE,
                span |-> created.span,
                parent |-> ConsumerSpanParent(tracing, envelope, active)]}
        /\ tracing' = created.state
        /\ UNCHANGED <<log, grp, handlers, streams, running, quitSent, calls, loops,
                       nSub, failedSubs, delivered, ackCalls, done, dropped, published,
                       spans, spanCalls, subDone, publishing, serviceVars>>

ParentNext ==
    /\ Cardinality(evals) < MaxCalls
    /\ \E traceContext \in TraceContexts, active \in AmbientContexts(tracing) :
          ConsumerSpanCall(traceContext, active)

SpecParent == Init /\ [][ParentNext]_vars

(***************************************************************************)
(* Specification SpecWrapper: producers append messages that carry an      *)
(* envelope in the field `data`, in the field `payload`, or one in each,   *)
(* and messages whose `data` field is the empty string; a consumer         *)
(* instance that subscribes its handler for order.created once reads,      *)
(* decodes, dispatches and acknowledges them.                              *)
(***************************************************************************)
MaxWrapped == 2

\* An envelope as EventPublisher writes it and one of another event type of
\* the same stream as a caller of RedisStreamsClient.publish writes it.
WrappedEnvelopes ==
    {PublisherEnvelope(OrderCreated, u, InSpan) : u \in UUIDs}
        \cup {PublishedEnvelope(OrderShipped, u) : u \in UUIDs}

\* What a producer writes under `data`: nothing, the empty string or an
\* envelope; and under `payload`: nothing or an envelope.
UnderData == WrappedEnvelopes \cup {None, Str(<<>>)}
UnderPayload == WrappedEnvelopes \cup {None}

\* The field array of a message with the values given (None: the field is
\* not written), in the order in which the producer wrote the two fields.
WrappedFields(underData, underPayload, dataFirst) ==
    LET dataPart == IF underData = None THEN <<>>
                    ELSE IF underData.t = "obj" THEN <<"data", JSONStringify(underData)>>
                    ELSE <<"data", underData>>
        payloadPart == IF underPayload = None THEN <<>> ELSE ClientFields(underPayload)
    IN  IF dataFirst THEN dataPart \o payloadPart ELSE payloadPart \o dataPart

WrapperNext ==
    \/ /\ TotalEntries < MaxWrapped
       /\ \E underData \in UnderData, underPayload \in UnderPayload, dataFirst \in BOOLEAN :
             /\ underData # None \/ underPayload # None
             /\ ForeignAppend(ConsumerGetStreamName(OrderCreated),
                              WrappedFields(underData, underPayload, dataFirst))
    \/ \E c \in Instances :
          \/ \E res \in {"created", "BUSYGROUP"} :
                /\ DOMAIN handlers[c] = {}
                /\ SubscribeCall(c, OrderCreated, "h1", res)
          \/ \E i \in LoopIds : SubscribeResume(c, i)
          \/ \E i \in LoopIds : ReadEntries(c, i)
          \/ \E i \in LoopIds : ReadNull(c, i)
          \/ \E i \in LoopIds : Process(c, i)
          \/ \E i \in LoopIds, o \in {"ok", "error"} : HandlerDone(c, i, o)
          \/ \E i \in LoopIds : AckReturn(c, i)

SpecWrapper == Init /\ [][WrapperNext]_vars

(***************************************************************************)
(* ProductService: createProduct, getProduct, updateProduct, deleteProduct *)
(* and invalidateCache, for one product id, with the cache enabled.  The   *)
(* service has one Redis connection, which executes its commands in the    *)
(* order in which they were issued, so a command takes effect when it is   *)
(* issued; a command that fails has no effect.  The code between two       *)
(* awaits runs without interruption.                                       *)
(***************************************************************************)
MaxVersion == 2
MaxRequests == 4

Request(op, pc, result) ==
    [op |-> op, pc |-> pc, result |-> result, raised |-> FALSE,
     reply |-> NoProduct, floor |-> NoProduct, gone |-> FALSE]

Returned_(i) == requests[i].pc = "returned"

\* The newest version written by a createProduct or updateProduct call that
\* has returned, and whether a deleteProduct call has returned.
CompletedVersion ==
    LET vs == {requests[i].result : i \in {j \in 1..Len(requests) :
                    requests[j].op \in {"create", "update"} /\ Returned_(j)}}
    IN  IF vs = {} THEN NoProduct ELSE CHOOSE v \in vs : \A w \in vs : w <= v

DeleteCompleted ==
    \E i \in 1..Len(requests) : requests[i].op = "delete" /\ Returned_(i)

\* invalidateCache(key): DEL key; a failure is logged and swallowed, and the
\* key keeps its value.
invalidateCache(key, ok) == IF ok THEN NoProduct ELSE key

\* createProduct up to its await: the product is stored under a new id and
\* DEL is issued.  It is the first call that names the id.
CreateProductCall(ok) ==
    /\ requests = <<>>
    /\ products' = 1
    /\ cache' = invalidateCache(cache, ok)
    /\ requests' = Append(requests, Request("create", "invalidate", 1))
    /\ UNCHANGED <<log, grp, handlers, streams, running, quitSent, calls, loops, nSub,
                   tracing, publishing, shutdown>>
    /\ UNCHANGED histVars

\* updateProduct up to its await: null for an unknown id; else the updated
\* product is stored and DEL is issued.
UpdateProductCall(ok) ==
    /\ IF products = NoProduct
       THEN /\ requests' = Append(requests, Request("update", "returned", NoProduct))
            /\ UNCHANGED <<products, cache>>
       ELSE /\ products < MaxVersion
            /\ products' = products + 1
            /\ cache' = invalidateCache(cache, ok)
            /\ requests' = Append(requests, Request("update", "invalidate", products + 1))
    /\ UNCHANGED <<log, grp, handlers, streams, running, quitSent, calls, loops, nSub,
                   tracing, publishing, shutdown>>
    /\ UNCHANGED histVars

\* deleteProduct up to its await: the product is removed and DEL is issued.
DeleteProductCall(ok) ==
    /\ products' = NoProduct
    /\ cache' = invalidateCache(cache, ok)
    /\ requests' = Append(requests, Request("delete", "invalidate", NoProduct))
    /\ UNCHANGED <<log, grp, handlers, streams, running, quitSent, calls, loops, nSub,
                   tracing, publishing, shutdown>>
    /\ UNCHANGED histVars

\* The await of invalidateCache is over: the write returns.
WriteReturn(i) ==
    /\ i \in 1..Len(requests)
    /\ requests[i].pc = "invalidate"
    /\ requests' = [requests EXCEPT ![i].pc = "returned"]
    /\ UNCHANGED <<log, grp, handlers, streams, running, quitSent, calls, loops, nSub,
                   tracing, publishing, products, cache, shutdown>>
    /\ UNCHANGED histVars

\* getProduct up to its first await: GET product:<id> is issued.
GetProductCall(ok) ==
    /\ requests' = Append(requests,
          [Request("get", "cacheGet", NoProduct) EXCEPT
              !.reply = cache, !.raised = ~ok,
              !.floor = CompletedVersion, !.gone = DeleteCompleted])
    /\ UNCHANGED <<log, grp, handlers, streams, running, quitSent, calls, loops, nSub,
                   tracing, publishing, products, cache, shutdown>>
    /\ UNCHANGED histVars

\* getProduct after GET: a failed GET raises; a cached value is parsed and
\* returned; on a miss the product is read from the store and, when there is
\* one, SETEX is issued, which raises when it fails.
GetProductResume(i, ok) ==
    /\ i \in 1..Len(requests)
    /\ requests[i].pc = "cacheGet"
    /\ IF requests[i].raised \/ requests[i].reply # NoProduct \/ products = NoProduct
       THEN /\ requests' = [requests EXCEPT ![i].pc = "returned",
                                            ![i].result = requests[i].reply]
            /\ UNCHANGED cache
       ELSE /\ cache' = IF ok THEN products ELSE cache
            /\ requests' = [requests EXCEPT ![i].pc = "setex", ![i].result = products,
                                            ![i].raised = ~ok]
    /\ UNCHANGED <<log, grp, handlers, streams, running, quitSent, calls, loops, nSub,
                   tracing, publishing, products, shutdown>>
    /\ UNCHANGED histVars

\* The await of SETEX is over: getProduct returns the product, or raises.
GetProductReturn(i) ==
    /\ i \in 1..Len(requests)
    /\ requests[i].pc = "setex"
    /\ requests' = [requests EXCEPT ![i].pc = "returned"]
    /\ UNCHANGED <<log, grp, handlers, streams, running, quitSent, calls, loops, nSub,
                   tracing, publishing, products, cache, shutdown>>
    /\ UNCHANGED histVars

\* The key's time to live, config.cacheTtl, runs out.
CacheExpire ==
    /\ cache # NoProduct
    /\ cache' = NoProduct
    /\ UNCHANGED <<log, grp, handlers, streams, running, quitSent, calls, loops, nSub,
                   tracing, publishing, products, requests, shutdown>>
    /\ UNCHANGED histVars

(***************************************************************************)
(* Specification SpecCache: HTTP requests call the ProductService for one  *)
(* product id in any interleaving; each Redis command succeeds or fails.   *)
(***************************************************************************)
RequestIds == 1..MaxRequests

CacheNext ==
    \/ /\ Len(requests) < MaxRequests
       /\ \E ok \in BOOLEAN :
             \/ CreateProductCall(ok)
             \/ requests # <<>> /\ UpdateProductCall(ok)
             \/ requests # <<>> /\ DeleteProductCall(ok)
             \/ requests # <<>> /\ GetProductCall(ok)
    \/ \E i \in RequestIds : WriteReturn(i)
    \/ \E i \in RequestIds, ok \in BOOLEAN : GetProductResume(i, ok)
    \/ \E i \in RequestIds : GetProductReturn(i)
    \/ CacheExpire

SpecCache == Init /\ [][CacheNext]_vars

(***************************************************************************)
(* The product service process: main has connected the ProductService,     *)
(* started the HTTP server and registered shutdown for SIGTERM and SIGINT. *)
(***************************************************************************)
MaxSignals == 2
MaxAccepted == 2

Signals == {"SIGTERM", "SIGINT"}

Exited == shutdown.code # -1

\* The HTTP server accepts a connection.
HttpAccept ==
    /\ ~Exited
    /\ shutdown.listening
    /\ shutdown.accepted < MaxAccepted
    /\ shutdown' = [shutdown EXCEPT !.accepted = @ + 1]
    /\ UNCHANGED <<log, grp, handlers, streams, running, quitSent, calls, loops, nSub,
                   tracing, publishing, products, cache, requests>>
    /\ UNCHANGED histVars

\* shutdown(signal) up to its first await: server.close() is called and
\* ProductService.disconnect() is awaited.
ShutdownCall(signal) ==
    /\ ~Exited
    /\ Len(shutdown.calls) < MaxSignals
    /\ shutdown' = [shutdown EXCEPT
          !.listening = FALSE,
          !.calls = Append(@, [signal |-> signal, pc |-> "disconnect",
                               steps |-> <<"close", "disconnect">>, errors |-> {}])]
    /\ UNCHANGED <<log, grp, handlers, streams, running, quitSent, calls, loops, nSub,
                   tracing, publishing, products, cache, requests>>
    /\ UNCHANGED histVars

AfterDisconnectRethrow(call, ok) ==
    IF ok THEN [call EXCEPT !.pc = "otel", !.steps = Append(@, "shutdownOtel")]
    ELSE [call EXCEPT !.pc = "aborted", !.errors = @ \cup {"disconnect"}]

\* The try around disconnect: its catch logs the error; then shutdownOtel()
\* is awaited.
AfterDisconnect(call, ok) ==
    [call EXCEPT !.pc = "otel", !.steps = Append(@, "shutdownOtel"),
                 !.errors = IF ok THEN @ ELSE @ \cup {"disconnect"}]

\* redis.quit() settles: the connection is closed, or the command is rejected.
DisconnectSettled(i, ok) ==
    /\ ~Exited
    /\ i \in 1..Len(shutdown.calls)
    /\ shutdown.calls[i].pc = "disconnect"
    /\ shutdown' = [shutdown EXCEPT
          !.redis = IF ok THEN "closed" ELSE @,
          !.calls[i] = AfterDisconnect(@, ok)]
    /\ UNCHANGED <<log, grp, handlers, streams, running, quitSent, calls, loops, nSub,
                   tracing, publishing, products, cache, requests>>
    /\ UNCHANGED histVars

\* sdk.shutdown() settles; the catch logs an error; process.exit(0).
OtelSettled(i, ok) ==
    /\ ~Exited
    /\ i \in 1..Len(shutdown.calls)
    /\ shutdown.calls[i].pc = "otel"
    /\ shutdown' = [shutdown EXCEPT
          !.otel = IF ok THEN "shutdown" ELSE @,
          !.code = 0,
          !.calls[i] = [@ EXCEPT !.pc = "exited", !.steps = Append(@, "exit"),
                                 !.errors = IF ok THEN @ ELSE @ \cup {"shutdownOtel"}]]
    /\ UNCHANGED <<log, grp, handlers, streams, running, quitSent, calls, loops, nSub,
                   tracing, publishing, products, cache, requests>>
    /\ UNCHANGED histVars

(***************************************************************************)
(* Specification SpecShutdown: the serving process receives signals; the   *)
(* promises shutdown awaits settle, with success or with an error.         *)
(***************************************************************************)
SignalIds == 1..MaxSignals

ShutdownNext ==
    \/ HttpAccept
    \/ \E signal \in Signals : ShutdownCall(signal)
    \/ \E i \in SignalIds, ok \in BOOLEAN : DisconnectSettled(i, ok)
    \/ \E i \in SignalIds, ok \in BOOLEAN : OtelSettled(i, ok)

SpecShutdown ==
    Init /\ [][ShutdownNext]_vars
         /\ \A i \in SignalIds :
               /\ WF_vars(\E ok \in BOOLEAN : DisconnectSettled(i, ok))
               /\ WF_vars(\E ok \in BOOLEAN : OtelSettled(i, ok))

(***************************************************************************)
(* Properties.                                                             *)
(***************************************************************************)
Pending(stream, id) ==
    /\ GroupName \in DOMAIN grp[stream]
    /\ id \in grp[stream][GroupName].pel

\* The event type a delivered entry decodes to, when it decodes.
Decodes(stream, id) ==
    LET text == EnvelopeData(log[stream][id])
    IN  Truthy(text) /\ ~JSONParse(text).throws /\ JSONParse(text).value # Null

\* The records of messages that decoded and had a handler registered for
\* their event type when they were dispatched.
Handled == {r \in done : Decodes(r.stream, r.id) /\ r.h # "none"}

\* C1: a message that decodes and has a registered handler is acknowledged
\* (one XACK on its stream and group) if and only if the handler completed
\* without raising; when the handler raised, no XACK is issued and the entry
\* stays on the group's pending list.
C1_AckIffHandlerCompletes ==
    \A r \in Handled :
        /\ r.outcome \in Outcomes
        /\ (r.xack # "none") <=> (r.outcome = "ok")
        /\ AckCount(<<r.stream, r.id>>) = (IF r.outcome = "ok" THEN 1 ELSE 0)
        /\ r.xack = "ok" => ~Pending(r.stream, r.id)
        /\ r.outcome # "ok" => Pending(r.stream, r.id)

\* A handler raised on message M, which stays pending, and the same handler
\* returned on another message M', which was acknowledged.
C1_Witness ==
    \E r1 \in Handled, r2 \in Handled :
        /\ r1.h = r2.h
        /\ r1.outcome = "error" /\ Pending(r1.stream, r1.id)
        /\ r2.outcome = "ok" /\ r2.xack = "ok" /\ ~Pending(r2.stream, r2.id)

\* C5: a failure while dispatching one message is isolated to that message:
\* it does not propagate out of processMessage, the poll loop keeps running
\* and the remaining messages of the batch are still dispatched.
C5_FailureIsolated ==
    /\ \A r \in done : ~r.escaped
    /\ dropped = {}
    /\ \A c \in Instances : \A i \in 1..Len(loops[c]) : loops[c][i].pc # "exited"

\* C7: a delivered message whose payload cannot be decoded is acknowledged
\* and dropped without a handler being invoked, so it does not stay pending.
Undecodable(stream, id) ==
    Truthy(EnvelopeData(log[stream][id])) /\ ~Decodes(stream, id)

C7_UndecodableAcked ==
    \A r \in done :
        Undecodable(r.stream, r.id) =>
            /\ r.h = "none"
            /\ r.xack # "none"
            /\ ~Pending(r.stream, r.id)

\* C8: a delivered message with neither a usable data field nor a usable
\* payload field is acknowledged at once, and neither a handler nor a
\* consumer span is run for it.
Unwrapped(stream, id) == ~Truthy(EnvelopeData(log[stream][id]))

C8_UnwrappedAcked ==
    /\ \A r \in done :
          Unwrapped(r.stream, r.id) =>
              /\ r.xack = "ok" /\ AckCount(<<r.stream, r.id>>) = 1
              /\ ~Pending(r.stream, r.id)
              /\ r.h = "none" /\ r.outcome = "none" /\ ~r.span
    /\ \A c \in Instances : \A i \in 1..Len(loops[c]) :
          (loops[c][i].cur # None /\ Unwrapped(loops[c][i].cur.stream, loops[c][i].cur.id)) =>
              /\ loops[c][i].pc = "acking"
              /\ AckCount(<<loops[c][i].cur.stream, loops[c][i].cur.id>>) = 1

C8_Witness ==
    \E r \in done : Unwrapped(r.stream, r.id) /\ r.xack = "ok" /\ ~Pending(r.stream, r.id)

\* C9: when the creation of the consumer group failed with an error other
\* than BUSYGROUP, the subscription does not become active: its stream is
\* not in the set the poll loop reads.
C9_FailedSubscriptionInactive ==
    \A c \in Instances : \A T \in failedSubs[c] :
        /\ ConsumerGetStreamName(T) \notin Range(streams[c])
        /\ \A i \in 1..Len(loops[c]) : ConsumerGetStreamName(T) \notin Range(loops[c][i].snap)

\* C3: Stopped is terminal: once stop() has been called on an instance,
\* nothing sets it running again.
C3_StoppedIsTerminal == \A c \in Instances : quitSent[c] => ~running[c]

\* C4: an instance has at most one active poll loop at every moment.
ActiveLoops(c) == {i \in 1..Len(loops[c]) : loops[c][i].pc # "exited"}

C4_SingleLoop == \A c \in Instances : Cardinality(ActiveLoops(c)) <= 1

\* C6: a read that fails does not end the poll loop: the loop leaves only
\* after stop() was called, and after the backoff wait it issues another
\* read unless stop() was called.
C6_TransportErrorRecovered ==
    \A c \in Instances : \A i \in LoopIds :
        /\ [](AtPc(c, i, "exited") => quitSent[c])
        /\ (AtPc(c, i, "backoff") ~> (AtPc(c, i, "reading") \/ quitSent[c]))

\* A read failed with no stop() called: the loop waits in its backoff and the
\* instance is still running.
C6_Witness ==
    \E c \in Instances : \E i \in LoopIds :
        /\ AtPc(c, i, "backoff")
        /\ ~quitSent[c]
        /\ running[c]

\* C2: with two instances in one group, every appended event is handed to
\* exactly one of them and is acknowledged exactly once.
OrderStream == ConsumerGetStreamName(OrderCreated)
DeliveredTo(stream, id) == {c \in Consumers : <<c, stream, id>> \in delivered}
Subscribed(c) == Len(loops[c]) > 0
HandledOnce(stream, id) ==
    Cardinality({r \in done : r.stream = stream /\ r.id = id /\ r.outcome = "ok"}) = 1

Settled(stream, id) ==
    /\ Cardinality(DeliveredTo(stream, id)) = 1
    /\ AckCount(<<stream, id>>) = 1
    /\ HandledOnce(stream, id)
    /\ ~Pending(stream, id)

C2_GroupDelivery ==
    /\ [](\A k \in 1..Len(log[OrderStream]) :
            /\ Cardinality(DeliveredTo(OrderStream, k)) <= 1
            /\ AckCount(<<OrderStream, k>>) <= 1)
    /\ [][\A k \in 1..Len(log[OrderStream]) :
            Settled(OrderStream, k) => Settled(OrderStream, k)']_vars
    /\ (\A c \in Consumers : Subscribed(c))
          ~> (\A k \in 1..Len(log[OrderStream]) : Settled(OrderStream, k))

\* Both instances took part: each was handed an entry, and all are acknowledged.
C2_Witness ==
    /\ \A c \in Consumers : \E k \in 1..Len(log[OrderStream]) : DeliveredTo(OrderStream, k) = {c}
    /\ Len(log[OrderStream]) >= 2
    /\ \A k \in 1..Len(log[OrderStream]) :
          AckCount(<<OrderStream, k>>) = 1 /\ ~Pending(OrderStream, k)

\* C10: the stream EventPublisher.publish appends an event of type T to is
\* the stream a consumer subscribed to T reads.
C10_OneStreamRule ==
    \A p \in published : \A c \in Instances :
        (~p.raised /\ p.eventType \in DOMAIN handlers[c]) => p.stream \in Range(streams[c])

\* The entries of a stream whose handler this instance has invoked so far:
\* the finished calls and the calls in flight.
Invoked(c, stream) ==
    {r.id : r \in {x \in done : x.c = c /\ x.stream = stream /\ x.h # "none"}}
    \cup {loops[c][j].cur.id :
            j \in {k \in 1..Len(loops[c]) :
                      /\ loops[c][k].cur # None
                      /\ loops[c][k].h # "none"
                      /\ loops[c][k].cur.stream = stream}}

\* Loop i of instance c invokes a handler in this step.
Invokes(c, i) ==
    /\ i \in 1..Len(loops'[c])
    /\ loops'[c][i].pc = "handling"
    /\ ~AtPc(c, i, "handling")

\* C11: FIFO within a stream: a single instance invokes the handlers of a
\* stream's entries in append order; when a handler is invoked for an entry,
\* every entry of that stream whose handler was invoked before is older.
C11_AppendOrder ==
    [][\A c \in Instances : \A i \in LoopIds :
          Invokes(c, i) =>
              \A id \in Invoked(c, loops'[c][i].cur.stream) : id < loops'[c][i].cur.id]_vars

\* The handler of the second entry of a stream is running after the handler
\* of its first entry has finished.
C11_Witness ==
    \E c \in Instances : \E i \in 1..Len(loops[c]) :
        /\ loops[c][i].pc = "handling"
        /\ loops[c][i].cur.id = 2
        /\ 1 \in Invoked(c, loops[c][i].cur.stream)

\* A read of loop i of instance c returns entries in this step.
ReadReturns(c, i) ==
    /\ AtPc(c, i, "reading")
    /\ i \in 1..Len(loops'[c])
    /\ loops'[c][i].pc = "next"

\* C12: the poll loop only requests new entries: an entry a read returns was
\* never handed out to the group before and is not on its pending list, so an
\* entry left unacknowledged is not read again and no entry is dispatched
\* twice.
C12_OnlyNewEntries ==
    /\ [][\A c \in Instances : \A i \in LoopIds :
            ReadReturns(c, i) =>
                \A k \in 1..Len(loops'[c][i].batch) :
                    /\ \A c2 \in Consumers :
                          <<c2, loops'[c][i].batch[k].stream, loops'[c][i].batch[k].id>>
                              \notin delivered
                    /\ ~Pending(loops'[c][i].batch[k].stream, loops'[c][i].batch[k].id)]_vars
    /\ [](\A r1 \in done : \A r2 \in done :
            (r1.stream = r2.stream /\ r1.id = r2.id) => r1 = r2)

\* An entry whose handler raised is pending, and the instance has issued its
\* next read while a newer entry of the same stream waits to be delivered.
C12_Witness ==
    \E r \in done : \E i \in 1..Len(loops[r.c]) :
        /\ r.outcome = "error"
        /\ Pending(r.stream, r.id)
        /\ loops[r.c][i].pc = "reading"
        /\ ReadServed(r.c, i)
        /\ NewIds(r.stream, ConsumerGroup(r.c)) # {}

\* C13: after stop() was called, with no subscribe call made later, the poll
\* loop issues no further blocking read: no read is in flight that was
\* issued after the client was quit.
C13_NoReadAfterStop ==
    \A c \in Instances : \A i \in 1..Len(loops[c]) :
        ~(loops[c][i].pc = "reading" /\ loops[c][i].closed)

\* C14: stop is cooperative: the message that is being processed when
\* stop() is called is processed to the end, and when its handler returned
\* the message is acknowledged and leaves the pending list.
C14_InFlightAcked ==
    \A r \in done :
        (r.h # "none" /\ r.outcome = "ok") =>
            (r.xack = "ok" /\ ~Pending(r.stream, r.id))

\* The loops of an instance that are inside a processMessage call.
Processing(c) == {i \in 1..Len(loops[c]) : loops[c][i].cur # None}

\* C15: an instance processes its messages one at a time: at most one
\* processMessage call, and so at most one handler invocation, is in flight,
\* and only a loop that is in no such call takes the next message.
C15_OneAtATime ==
    /\ [](\A c \in Instances : Cardinality(Processing(c)) <= 1)
    /\ [][\A c \in Instances : \A i \in LoopIds :
            Invokes(c, i) => Processing(c) = {}]_vars

\* A handler is running while the next message of the same batch waits.
C15_Witness ==
    \E c \in Instances : \E i \in 1..Len(loops[c]) :
        /\ loops[c][i].pc = "handling"
        /\ loops[c][i].batch # <<>>

\* The positions of a call kind in the trace of a span.
OpsAt(trace, op) == {k \in 1..Len(trace) : trace[k].op = op}

\* C16: withSpan ends the span it opened exactly once, as the last call on
\* the span before it settles, whether fn returned or raised; when fn raised,
\* that exception is recorded on the span before the end and the same
\* exception is raised to the caller; when fn returned, withSpan returns fn's
\* result and records nothing.  While fn has not settled the span is started
\* and not ended.
C16_SpanEndedOnce ==
    /\ \A s \in spans :
          /\ OpsAt(s.trace, "start") = {1}
          /\ OpsAt(s.trace, "end") = {Len(s.trace)}
          /\ s.result.throws =>
                /\ OpsAt(s.trace, "recordException") = {2}
                /\ s.trace[2].error = s.result.value
          /\ ~s.result.throws => OpsAt(s.trace, "recordException") = {}
    /\ \A k \in 1..Len(spanCalls) :
          /\ OpsAt(spanCalls[k].span, "start") = {1}
          /\ OpsAt(spanCalls[k].span, "end") = {}

\* One call whose fn raised and one whose fn returned a value have settled.
C16_Witness ==
    /\ \E s \in spans : s.result.throws /\ s.result.value \in Errors
    /\ \E s \in spans : ~s.result.throws /\ s.result.value # Undefined

\* The records of the publish calls that settle in this step.
Settling == published' \ published

\* The publish calls that issue their XADD in this step.
Issuing == IF Len(publishing') > Len(publishing)
           THEN {publishing'[Len(publishing')]} ELSE {}

\* C17: a publish call that returns normally has appended exactly one entry,
\* to the stream resolved from its eventType and to no other stream, before
\* it returns, and returns the id the broker assigned to that entry, which
\* holds the envelope of its event type: the entry is appended when the call
\* issues XADD, nothing is appended when the call returns, and the id it
\* returns is the reply to its XADD.
C17_AppendedBeforeReturn ==
    /\ [][\A call \in Issuing : ~call.xadd.throws =>
             /\ call.stream = PublisherGetStreamName(DefaultStreamPrefix, call.eventType)
             /\ \A s \in Streams :
                   /\ Len(log'[s]) = Len(log[s]) + (IF s = call.stream THEN 1 ELSE 0)
                   /\ SubSeq(log'[s], 1, Len(log[s])) = log[s]
             /\ call.xadd = Returned(Len(log'[call.stream]))]_vars
    /\ [][\A p \in Settling : ~p.raised =>
             /\ log' = log
             /\ p.result = Head(publishing).xadd
             /\ p.result = Returned(p.id)
             /\ p.stream = PublisherGetStreamName(DefaultStreamPrefix, p.eventType)
             /\ p.id \in 1..Len(log[p.stream])
             /\ ProcessStart(log[p.stream][p.id]).envelope.eventType = Str(p.eventType)]_vars

\* Two publish calls to the same stream have returned, the second with the
\* id of the second entry.
C17_Witness ==
    \E p \in published :
        /\ ~p.raised
        /\ p.id = 2
        /\ Len(log[p.stream]) = 2

\* C18: when the append fails, publish raises that failure to its caller,
\* no entry is appended by the call, neither when it issues XADD nor when it
\* settles (no retry that could succeed), and the producer span is ended
\* after the failure was recorded on it.
C18_FailureRaised ==
    /\ [][\A call \in Issuing : call.xadd.throws => log' = log]_vars
    /\ [][\A p \in Settling : p.failed => log' = log]_vars
    /\ [](\A p \in published : p.failed =>
            /\ p.raised
            /\ p.result = Thrown(AppendError)
            /\ p.id = 0
            /\ OpsAt(p.span, "recordException") = {2}
            /\ OpsAt(p.span, "end") = {Len(p.span)})

\* A publish call whose append failed has settled after an earlier one
\* succeeded on the same stream.
C18_Witness ==
    \E p \in published :
        /\ p.failed
        /\ Len(log[p.stream]) >= 1

\* processMessage: the parent of the consumer span is extracted from the
\* envelope's traceContext when that is truthy, else it is left undefined.
\* A context that holds the span context of a remote parent.
ValidParent(ctx) == ctx # Undefined /\ ctx.traceparent # None

\* C19: every envelope that publish appended carries a non-empty
\* traceContext, and extracting it in the consumer's poll loop, which runs in
\* no span, yields a valid parent context for the consumer span.
C19_TraceContextPropagated ==
    \A p \in published : ~p.raised =>
        LET envelope == ProcessStart(log[p.stream][p.id]).envelope
        IN  /\ envelope.traceContext.t = "obj"
            /\ DOMAIN envelope.traceContext.o # {}
            /\ ValidParent(ParentContext(tracing, envelope, NoSpan))

\* subscribe calls of instance c whose XGROUP CREATE is answered BUSYGROUP
\* in this step.
Resubscribes(c) ==
    /\ Len(calls'[c]) > Len(calls[c])
    /\ calls'[c][Len(calls'[c])].result = "BUSYGROUP"

\* C20: group creation is idempotent: a subscribe call for a stream on which
\* the group exists does not raise and logs no failure, the stream keeps
\* exactly one group of that name, and the call leaves the group, with its
\* last-delivered id and its pending entries, as it was.
C20_CreationIdempotent ==
    /\ [][\A c \in Consumers : Resubscribes(c) => grp' = grp]_vars
    /\ [](\A r \in subDone : r.result = "BUSYGROUP" =>
            /\ ~r.raised
            /\ ~r.logged
            /\ Cardinality({g \in DOMAIN grp[r.stream] : g = ConsumerGroup(r.c)}) = 1)

\* A second instance has subscribed to a stream whose group the first one
\* created and from which entries have been delivered.
C20_Witness ==
    \E r \in subDone : \E q \in subDone :
        /\ r.result = "BUSYGROUP"
        /\ q.result = "created"
        /\ q.c # r.c
        /\ q.stream = r.stream
        /\ grp[r.stream][ConsumerGroup(r.c)].last > 0

\* The event type of the envelope that entry id of a stream decodes to.
TypeOf(stream, id) == ProcessStart(log[stream][id]).envelope.eventType

\* Instance c calls subscribe in this step.
Subscribes(c) == nSub'[c] = nSub[c] + 1

\* The subscribe call that instance c makes in this step.
NewCall(c) == calls'[c][Len(calls'[c])]

\* C21: a subscribe call for an event type replaces the handler bound to it
\* and changes no other binding, one handler is bound per event type, and an
\* envelope dispatched afterwards invokes the handler bound at that moment,
\* which is the one of the latest subscribe call for its type.
C21_HandlerReplaced ==
    /\ [][\A c \in Instances : Subscribes(c) =>
            /\ DOMAIN handlers'[c] = DOMAIN handlers[c] \cup {NewCall(c).eventType}
            /\ \A T \in DOMAIN handlers'[c] :
                  handlers'[c][T] = IF T = NewCall(c).eventType THEN NewCall(c).handler
                                    ELSE handlers[c][T]]_vars
    /\ [][\A c \in Instances : \A i \in LoopIds : Invokes(c, i) =>
            LET m == loops'[c][i].cur
            IN  loops'[c][i].h = handlers[c][TypeOf(m.stream, m.id).s]]_vars

\* The handler h1 has handled an envelope of an event type, and h2, bound to
\* that type by a later subscribe call, is running on the next one.
C21_Witness ==
    \E c \in Instances : \E i \in 1..Len(loops[c]) : \E r \in done :
        /\ loops[c][i].pc = "handling"
        /\ loops[c][i].h = "h2"
        /\ r.c = c /\ r.h = "h1"
        /\ TypeOf(r.stream, r.id) = TypeOf(loops[c][i].cur.stream, loops[c][i].cur.id)
        /\ handlers[c][TypeOf(r.stream, r.id).s] = "h2"

\* The group is created on the stream in this step.
GroupCreated(stream) ==
    /\ GroupName \notin DOMAIN grp[stream]
    /\ GroupName \in DOMAIN grp'[stream]

\* C22: the group is created at the beginning of the stream: when it is
\* created, the entries appended before are new to it, oldest first, and
\* once an instance polls the stream each of them is eventually delivered.
C22_HistoryDelivered ==
    /\ [][\A s \in Streams : GroupCreated(s) =>
            NewIds(s, GroupName)' = 1..Min(ReadCount, Len(log[s]))]_vars
    /\ (\E c \in Consumers : Subscribed(c))
          ~> (\A k \in 1..Len(log[OrderStream]) : DeliveredTo(OrderStream, k) # {})

\* Entries that were on the stream when its group was created have been
\* delivered.
C22_Witness ==
    /\ Len(log[OrderStream]) >= 2
    /\ \A k \in 1..Len(log[OrderStream]) :
          /\ DeliveredTo(OrderStream, k) # {}
          /\ \E r \in done : r.stream = OrderStream /\ r.id = k /\ r.h = "h1"

\* C23: decoding the encoding of a valid envelope yields an envelope and
\* reproduces every field of it, in the camelCase and in the snake_case
\* dialect.
C23_RoundTrip ==
    \A r \in done :
        \A envelope \in ValidEnvelopes, dialect \in Dialects, wrapper \in Wrappers :
            log[r.stream][r.id] = Encode(envelope, dialect, wrapper) =>
                /\ r.path = "dispatch"
                /\ r.h = "h1"
                /\ \A k \in EnvelopeFields : r.envelope[k] = envelope.o[k]

\* C24: an event type with no domain segment is rejected by publish and by
\* subscribe before any broker I/O: the call raises, no entry is appended,
\* no group is created and no stream is added to the polled set.
C24_InvalidTypeRejected ==
    \A T \in MalformedTypes :
        /\ \A p \in published : p.eventType = T => p.raised
        /\ log[PublisherGetStreamName(DefaultStreamPrefix, T)] = <<>>
        /\ \A r \in subDone : r.eventType = T => r.raised
        /\ grp[ConsumerGetStreamName(T)] = EmptyFn
        /\ \A c \in Instances : ConsumerGetStreamName(T) \notin Range(streams[c])

\* d is the part of the event type before its first dot.
IsDomainOf(d, eventType) ==
    /\ \A j \in 1..Len(d) : d[j] # "."
    /\ \/ eventType = d
       \/ /\ Len(eventType) > Len(d)
          /\ SubSeq(eventType, 1, Len(d)) = d
          /\ eventType[Len(d) + 1] = "."

\* The stream name `{prefix}:{domain}s`.
IsProducerStream(stream, streamPrefix, eventType) ==
    \E n \in 0..Len(eventType) :
        /\ IsDomainOf(SubSeq(eventType, 1, n), eventType)
        /\ stream = streamPrefix \o <<":">> \o SubSeq(eventType, 1, n) \o <<"s">>

\* C25: the producer-side stream name is `{prefix}:{domain}s` with the domain
\* the part of the event type before its first dot, whatever was published
\* or resolved before: equal inputs give equal stream names, and publish
\* appends to the stream of that name.
C25_ProducerStreamPure ==
    /\ \A r \in evals : r.fn = "getStreamName" =>
          IsProducerStream(r.stream, r.streamPrefix, r.eventType)
    /\ \A r \in evals : \A q \in evals :
          (r.fn = "getStreamName" /\ q.fn = "getStreamName"
             /\ r.streamPrefix = q.streamPrefix /\ r.eventType = q.eventType)
          => r.stream = q.stream
    /\ \A p \in published :
          /\ IsProducerStream(p.stream, DefaultStreamPrefix, p.eventType)
          /\ ~p.raised => p.id \in 1..Len(log[p.stream])

\* The same event type was resolved under two prefixes, after an event of a
\* type without a dot and one of a dotted type were published.
C25_Witness ==
    /\ \E r \in evals : \E q \in evals :
          /\ r.fn = "getStreamName" /\ q.fn = "getStreamName"
          /\ r.eventType = q.eventType /\ r.streamPrefix # q.streamPrefix
    /\ \E p \in published : ~p.raised /\ p.eventType = OrderOnly
    /\ \E p \in published : ~p.raised /\ p.eventType = UserRegistered

\* The calls of initTracer and getTracer made so far.
TracerCalls == {r \in evals : r.fn \in {"initTracer", "getTracer"}}

\* C26: the tracer is a singleton of the process: every initTracer and
\* getTracer call returned the one tracer the module holds, at most one
\* provider was created and registered, and once the tracer exists a call,
\* whatever its config, changes nothing.
C26_TracerSingleton ==
    /\ [](\A r \in TracerCalls : r.returned = tracing.tracer)
    /\ [](Len(tracing.registered) <= 1)
    /\ [][tracing.tracer # Null => tracing' = tracing]_vars

\* initTracer was called with two different configs and getTracer was called.
C26_Witness ==
    /\ \E r \in TracerCalls : \E q \in TracerCalls :
          r.fn = "initTracer" /\ q.fn = "initTracer" /\ r.config # q.config
    /\ \E r \in TracerCalls : r.fn = "getTracer"

\* C27: injectTraceContext returns the carrier object it was given, written
\* to in place, and every key of the carrier that is no trace-context key
\* keeps its value.
C27_CarrierReturned ==
    \A r \in evals : r.fn = "injectTraceContext" =>
        /\ r.returned.ref = r.carrier.ref
        /\ r.after = r.returned
        /\ \A k \in DOMAIN r.carrier.o \ TraceKeys :
              /\ k \in DOMAIN r.returned.o
              /\ r.returned.o[k] = r.carrier.o[k]

\* A carrier that held other keys was injected into inside a span, and came
\* back with the trace context written to it.
C27_Witness ==
    \E r \in evals :
        /\ r.fn = "injectTraceContext"
        /\ DOMAIN r.carrier.o \ TraceKeys # {}
        /\ r.returned.o # r.carrier.o

\* The handler invocations made by instance c for entry id of a stream:
\* finished ones and the one in flight.
InvocationsOf(c, stream, id) ==
    Cardinality({r \in done : r.c = c /\ r.stream = stream /\ r.id = id /\ r.h # "none"})
    + Cardinality({j \in 1..Len(loops[c]) :
                      /\ loops[c][j].pc = "handling"
                      /\ loops[c][j].cur = [stream |-> stream, id |-> id]})

\* The event types of instance c whose binding is the envelope's event type.
BoundTo(c, stream, id) == {U \in DOMAIN handlers[c] : Str(U) = TypeOf(stream, id)}

\* C28: a handler is invoked only with envelopes of an event type it is
\* registered for, also when the stream carries several event types, and an
\* envelope invokes at most one handler.
C28_DispatchByType ==
    /\ [][\A c \in Instances : \A i \in LoopIds : Invokes(c, i) =>
            LET m == loops'[c][i].cur
            IN  /\ BoundTo(c, m.stream, m.id) # {}
                /\ loops'[c][i].h \in {handlers[c][U] : U \in BoundTo(c, m.stream, m.id)}]_vars
    /\ [](\A c \in Instances : \A stream \in Streams : \A id \in 1..Len(log[stream]) :
            InvocationsOf(c, stream, id) <= 1)

\* Two event types of one stream are bound to different handlers, and each
\* handler has been invoked with an envelope of its type.
C28_Witness ==
    \E c \in Instances : \E r \in done : \E q \in done :
        /\ r.c = c /\ q.c = c
        /\ r.stream = q.stream
        /\ r.h = "h1" /\ q.h = "h2"
        /\ TypeOf(r.stream, r.id) = Str(OrderCreated)
        /\ TypeOf(q.stream, q.id) = Str(OrderShipped)
        /\ handlers[c][OrderCreated] = "h1"
        /\ handlers[c][OrderShipped] = "h2"

\* The records of envelopes that decoded and had no handler registered for
\* their event type when they were dispatched.
Unhandled == {r \in done : r.path = "dispatch" /\ r.h = "none"}

\* C29: when the envelope's event type has no registered handler, no handler
\* is invoked and the message is acknowledged all the same: one XACK is
\* issued for it and it leaves the group's pending list.
C29_UnhandledAcked ==
    \A r \in Unhandled :
        /\ r.outcome = "none"
        /\ InvocationsOf(r.c, r.stream, r.id) = 0
        /\ r.xack = "ok"
        /\ AckCount(<<r.stream, r.id>>) = 1
        /\ ~Pending(r.stream, r.id)

\* An envelope of an event type that shares the stream of a subscribed type,
\* and has no handler itself, was acknowledged.
C29_Witness ==
    \E r \in Unhandled :
        /\ TypeOf(r.stream, r.id) = Str(OrderShipped)
        /\ DOMAIN handlers[r.c] = {OrderCreated}
        /\ r.xack = "ok"

\* The read of loop i of instance c is rejected in this step.
Rejected(c, i) ==
    /\ AtPc(c, i, "reading")
    /\ loops'[c][i].pc = "backoff"

\* C30: a group-creation failure on one stream affects only that
\* subscription: a read is not rejected while another subscribed stream,
\* whose group exists, has new entries to deliver.
C30_OtherStreamsRead ==
    [][\A c \in Instances : \A i \in LoopIds : Rejected(c, i) =>
          \A k \in 1..Len(loops[c][i].snap) :
              ~(/\ GroupName \in DOMAIN grp[loops[c][i].snap[k]]
                /\ NewIds(loops[c][i].snap[k], GroupName) # {})]_vars

\* Loop i of instance c takes a message off its batch in this step.
TakesMessage(c, i) ==
    /\ i \in 1..Len(loops[c])
    /\ loops[c][i].batch # <<>>
    /\ loops'[c][i].batch # loops[c][i].batch

\* Every message handed out to an instance has had its handler invoked.
AllDispatched ==
    \A d \in delivered : InvocationsOf(d[1], d[2], d[3]) = 1

\* C31: the messages of one read are dispatched exactly once and in order,
\* also when stop() is called while the batch is processed: a batch only
\* shrinks by its first message, whose handler is then invoked, whether the
\* instance was stopped or not, and every delivered message is dispatched in
\* the end.
C31_BatchFinishedAfterStop ==
    /\ [](\A d \in delivered : InvocationsOf(d[1], d[2], d[3]) <= 1)
    /\ [][\A c \in Instances : \A i \in LoopIds : TakesMessage(c, i) =>
            LET m == Head(loops[c][i].batch)
            IN  /\ loops'[c][i].batch = Tail(loops[c][i].batch)
                /\ loops'[c][i].pc = "handling"
                /\ loops'[c][i].cur = m
                /\ \A id \in Invoked(c, m.stream) : id < m.id]_vars
    /\ []<>AllDispatched

\* stop() was called while the handler of the first message of a batch was
\* running, so that its XACK failed, and the handler of the second message
\* of the batch is running.
C31_Witness ==
    \E c \in Instances : \E i \in 1..Len(loops[c]) : \E r \in done :
        /\ quitSent[c]
        /\ r.c = c /\ r.id = 1 /\ r.h = "h1" /\ r.xack = "failed"
        /\ loops[c][i].pc = "handling"
        /\ loops[c][i].cur = [stream |-> r.stream, id |-> 2]

\* Loop i of instance c issues a read in this step: it begins an iteration.
IssuesRead(c, i) ==
    /\ i \in 1..Len(loops'[c])
    /\ loops'[c][i].pc = "reading"
    /\ i \in 1..Len(loops[c]) => loops'[c][i] # loops[c][i]

\* C32: a read is issued over all the streams subscribed at the start of its
\* iteration, the streams added since the loop's last read included; a read
\* that is served hands out the new entries of each of them; and no stream
\* ever leaves the subscribed set of an instance.
C32_ReadsSubscribedStreams ==
    [][\A c \in Instances :
          /\ \A k \in 1..Len(streams[c]) :
                k <= Len(streams'[c]) /\ streams'[c][k] = streams[c][k]
          /\ \A i \in LoopIds :
                /\ IssuesRead(c, i) => loops'[c][i].snap = streams[c]
                /\ ReadReturns(c, i) =>
                      \A s \in Range(loops[c][i].snap) :
                         \A id \in NewIds(s, ConsumerGroup(c)) :
                            <<c, s, id>> \in delivered']_vars

\* An instance was handed an entry of its first stream, by a read that cannot
\* have named its second stream, whose group does not exist; its poll loop
\* has now issued a read over both streams.
C32_Witness ==
    \E c \in Instances : \E i \in 1..Len(loops[c]) :
        /\ loops[c][i].pc = "reading"
        /\ Len(loops[c][i].snap) = 2
        /\ ConsumerGroup(c) \notin DOMAIN grp[loops[c][i].snap[2]]
        /\ \E d \in delivered : d[1] = c /\ d[2] = loops[c][i].snap[1]

\* The payload of the message parses to an object that has neither an event
\* id nor an event type, in either dialect.
LacksIdentity(fields) ==
    LET parsed == JSONParse(EnvelopeData(fields))
    IN  /\ Truthy(EnvelopeData(fields))
        /\ ~parsed.throws
        /\ parsed.value.t = "obj"
        /\ NormalizeEnvelope(parsed.value).eventId = Undefined
        /\ NormalizeEnvelope(parsed.value).eventType = Undefined

\* C33: a message whose payload parses but names neither an event id nor an
\* event type is refused by the decoder: no consumer span is run for it and
\* no handler is looked up or invoked.
C33_AnonymousPayloadRefused ==
    \A r \in done :
        LacksIdentity(log[r.stream][r.id]) =>
            /\ r.path # "dispatch"
            /\ ~r.span
            /\ r.h = "none"

\* The trace context of an envelope holds a valid traceparent.
CarriesParent(traceContext) ==
    traceContext.t = "obj" /\ IsTraceparent(Prop(traceContext, "traceparent"))

\* C34: the consumer span of an envelope that carries no traceContext, or
\* one without a valid traceparent, is started in a context with no span,
\* whichever context is active in the poll loop, and nothing is raised.
C34_RootWithoutTraceContext ==
    \A e \in evals :
        e.fn = "consumerSpan" /\ ~CarriesParent(e.traceContext) =>
            /\ ~e.raised
            /\ e.parent.traceparent = None

\* C35: the traceContext of a published envelope is the one injected from the
\* context publish was called in: it never holds the span context of the
\* producer span of that call, and the consumer span started from it has the
\* context the producer span was started in as its parent, not the producer
\* span.
C35_CapturedBeforeProducerSpan ==
    \A p \in published : ~p.raised =>
        LET envelope == ProcessStart(log[p.stream][p.id]).envelope
        IN  /\ envelope.traceContext = getCurrentTraceContext(p.active)
            /\ Prop(envelope.traceContext, "traceparent") # p.producer.traceparent
            /\ \A state \in {Uninitialised, tracing} :
                  \A ambient \in AmbientContexts(state) :
                      ConsumerSpanParent(state, envelope, ambient) # p.producer
            /\ p.span[1].parent = "active"
            /\ p.active # NoSpan =>
                  ConsumerSpanParent(tracing, envelope, NoSpan) = p.active

\* publish was called inside a span and appended its envelope.
C35_Witness ==
    \E p \in published :
        /\ ~p.raised
        /\ p.active = InSpan
        /\ Len(log[p.stream]) >= p.id
        /\ p.span[Len(p.span)].op = "end"

\* What processMessage did with a message, apart from which message it was.
Dispatched(r) ==
    [path |-> r.path, envelope |-> r.envelope, h |-> r.h, outcome |-> r.outcome,
     xack |-> r.xack, span |-> r.span, escaped |-> r.escaped]

\* The messages of two records hold the same text, the first in a `data`
\* field and nothing else, the second in a `payload` field and nothing else.
SameUnderEither(r1, r2) ==
    LET f1 == ParseFields(log[r1.stream][r1.id])
        f2 == ParseFields(log[r2.stream][r2.id])
    IN  /\ DOMAIN f1 = {"data"}
        /\ DOMAIN f2 = {"payload"}
        /\ f1["data"] = f2["payload"]

\* A record of a message that carries `carried` (None: no envelope) shows
\* that this envelope was decoded and dispatched: the handler of its event
\* type ran on it, and the entry was acknowledged unless the handler raised;
\* a message without an envelope was acknowledged and no handler ran.
DispatchedAs(r, carried) ==
    IF carried.t # "obj"
    THEN r.path = "missing" /\ r.h = "none" /\ r.xack = "ok"
    ELSE /\ r.path = "dispatch"
         /\ \A k \in EnvelopeFields : r.envelope[k] = carried.o[k]
         /\ r.h = (IF carried.o["eventType"] = Str(OrderCreated) THEN "h1" ELSE "none")
         /\ r.xack = (IF r.outcome = "error" THEN "none" ELSE "ok")

\* C36 as stated: a message that carries an envelope under `data` and one
\* that carries the same envelope under `payload` are decoded and dispatched
\* identically; a message in which the field `data` is present is decoded
\* from that field, whatever the field `payload` holds and whichever was
\* written first.
C36_DataDecodedWhenPresent ==
    /\ \A r1, r2 \in done :
          SameUnderEither(r1, r2) /\ r1.outcome = r2.outcome =>
              Dispatched(r1) = Dispatched(r2)
    /\ \A r \in done :
          \A underData \in UnderData, underPayload \in UnderPayload, dataFirst \in BOOLEAN :
              /\ underData # None \/ underPayload # None
              /\ log[r.stream][r.id] = WrappedFields(underData, underPayload, dataFirst)
              => DispatchedAs(r, IF underData # None THEN underData ELSE underPayload)

\* C36, amended: a message that carries an envelope under `data` and one
\* that carries the same envelope under `payload` are decoded and dispatched
\* identically; a message in which the field `data` is present and not
\* empty is decoded from that field, whatever the field `payload` holds and
\* whichever was written first; an empty `data` field counts as absent, so
\* the message is decoded from `payload`, and is acknowledged without a
\* handler call when it has none.
C36_EitherWrapperDecoded ==
    /\ \A r1, r2 \in done :
          SameUnderEither(r1, r2) /\ r1.outcome = r2.outcome =>
              Dispatched(r1) = Dispatched(r2)
    /\ \A r \in done :
          \A underData \in UnderData, underPayload \in UnderPayload, dataFirst \in BOOLEAN :
              /\ underData # None \/ underPayload # None
              /\ log[r.stream][r.id] = WrappedFields(underData, underPayload, dataFirst)
              => DispatchedAs(r, IF underData.t = "obj" THEN underData ELSE underPayload)

\* The handler ran on the same envelope, once delivered under `data` and
\* once under `payload`, with the same result, and both entries were
\* acknowledged.
C36_Witness ==
    \E r1, r2 \in done :
        /\ SameUnderEither(r1, r2)
        /\ Dispatched(r1) = Dispatched(r2)
        /\ r1.path = "dispatch"
        /\ r1.h = "h1"
        /\ r1.xack = "ok"

\* C37: a getProduct call that was made after a write had returned does not
\* return a product older than that write, and returns no product once a
\* deleteProduct call had returned, in every interleaving and whether or not
\* the cache invalidations succeeded.
C37_CacheCoherent ==
    \A i \in 1..Len(requests) :
        LET r == requests[i]
        IN  r.op = "get" /\ r.pc = "returned" /\ ~r.raised =>
               /\ r.gone => r.result = NoProduct
               /\ r.result # NoProduct => r.result >= r.floor

ShutdownSteps == <<"close", "disconnect", "shutdownOtel", "exit">>

\* C38: every shutdown call runs its steps in order: the server stops
\* accepting connections, disconnect is awaited, then shutdownOtel is awaited,
\* whether or not disconnect failed, then the process exits, whether or not
\* shutdownOtel failed; once a signal was received the process ends, and a
\* process that has ended has exit code 0.
C38_ShutdownInOrder ==
    /\ [](\A i \in 1..Len(shutdown.calls) :
             /\ shutdown.calls[i].steps =
                   SubSeq(ShutdownSteps, 1, Len(shutdown.calls[i].steps))
             /\ ~shutdown.listening)
    /\ [][\A i \in 1..Len(shutdown.calls) :
             /\ shutdown.calls[i].pc = "disconnect" /\ shutdown'.calls[i].pc # "disconnect"
                   => shutdown'.calls[i].pc = "otel"
             /\ shutdown.calls[i].pc = "otel" /\ shutdown'.calls[i].pc # "otel"
                   => shutdown'.calls[i].pc = "exited" /\ shutdown'.code = 0
             /\ shutdown'.accepted = shutdown.accepted]_vars
    /\ [](Exited => shutdown.code = 0)
    /\ (shutdown.calls # <<>>) ~> (Exited /\ shutdown.code = 0)

\* A shutdown call whose disconnect and whose shutdownOtel both failed went
\* through all its steps, and the process has ended.
C38_Witness ==
    \E i \in 1..Len(shutdown.calls) :
        /\ shutdown.calls[i].errors = {"disconnect", "shutdownOtel"}
        /\ shutdown.calls[i].steps = ShutdownSteps
        /\ shutdown.accepted > 0
        /\ Exited

=============================================================================
